---- MODULE Spec2Model ----
(***************************************************************************)
(* Model of the event pipeline of kalshi_client.py:                        *)
(* KalshiClient.get_top_events_by_category (fetch, classify, aggregate,    *)
(* optional price-change enrichment, rank, truncate) together with the     *)
(* helpers it calls (specification Spec), and of the subscriptions of      *)
(* telegram_bot.py: the dict of subscribed chats, its file, the command    *)
(* handlers and the hourly job (specification BotSpec).                    *)
(*                                                                         *)
(* Text that the code searches (category labels, titles, keywords) is a    *)
(* sequence of one-character strings, so that str.lower() and the `in`     *)
(* substring test are computed.  Identifiers that the code only copies or  *)
(* tests for emptiness (tickers, option names) are plain strings.          *)
(* A field of an upstream JSON record is a record [t, v]: t is the kind    *)
(* of value found under the key ("absent" when the key is missing) and v   *)
(* its payload.                                                            *)
(***************************************************************************)
EXTENDS Integers, Sequences, FiniteSets

\* ------------------------------------------------------------------------
\* Text helpers: str.lower() and the substring operator `in`
\* ------------------------------------------------------------------------
UpperCase ==
    <<"A", "B", "C", "D", "E", "F", "G", "H", "I", "J", "K", "L", "M", "N", "O", "P", "Q", "R",
    "S", "T", "U", "V", "W", "X", "Y", "Z">>
LowerCase ==
    <<"a", "b", "c", "d", "e", "f", "g", "h", "i", "j", "k", "l", "m", "n", "o", "p", "q", "r",
    "s", "t", "u", "v", "w", "x", "y", "z">>
CharLower(ch) ==
    IF \E i \in 1..Len(UpperCase) : UpperCase[i] = ch
    THEN LowerCase[CHOOSE i \in 1..Len(UpperCase) : UpperCase[i] = ch]
    ELSE ch

Lower(s) ==
    [i \in 1..Len(s) |-> CharLower(s[i])]

\* mutant: the empty string is in no string
IsIn_NonEmpty(a, b) ==
    /\ a # <<>>
    /\ \E i \in 1..(Len(b) - Len(a) + 1) :
          b[i] = a[1] /\ SubSeq(b, i, i + Len(a) - 1) = a

\* a in b: the empty string is in every string, another one is in b when
\* it starts at some position of b
IsIn(a, b) ==
    \/ a = <<>>
    \/ \E i \in 1..(Len(b) - Len(a) + 1) :
          b[i] = a[1] /\ SubSeq(b, i, i + Len(a) - 1) = a

\* ------------------------------------------------------------------------
\* The fixed tables of get_top_events_by_category
\* ------------------------------------------------------------------------
s_climate == <<"c", "l", "i", "m", "a", "t", "e">>
s_climate_and_weather == <<"c", "l", "i", "m", "a", "t", "e", " ", "a", "n", "d", " ", "w", "e", "a", "t", "h", "e", "r">>
s_companies == <<"c", "o", "m", "p", "a", "n", "i", "e", "s">>
s_crypto == <<"c", "r", "y", "p", "t", "o">>
s_economics == <<"e", "c", "o", "n", "o", "m", "i", "c", "s">>
s_elections == <<"e", "l", "e", "c", "t", "i", "o", "n", "s">>
s_entertainment == <<"e", "n", "t", "e", "r", "t", "a", "i", "n", "m", "e", "n", "t">>
s_financials == <<"f", "i", "n", "a", "n", "c", "i", "a", "l", "s">>
s_health == <<"h", "e", "a", "l", "t", "h">>
s_politics == <<"p", "o", "l", "i", "t", "i", "c", "s">>
s_science == <<"s", "c", "i", "e", "n", "c", "e">>
s_science_and_technology == <<"s", "c", "i", "e", "n", "c", "e", " ", "a", "n", "d", " ", "t", "e", "c", "h", "n", "o", "l", "o", "g", "y">>
s_social == <<"s", "o", "c", "i", "a", "l">>
s_sports == <<"s", "p", "o", "r", "t", "s">>
s_technology == <<"t", "e", "c", "h", "n", "o", "l", "o", "g", "y">>
s_transportation == <<"t", "r", "a", "n", "s", "p", "o", "r", "t", "a", "t", "i", "o", "n">>
s_weather == <<"w", "e", "a", "t", "h", "e", "r">>
s_world == <<"w", "o", "r", "l", "d">>

\* CATEGORY_MAPPING.get(category_lower, [category_lower])
CATEGORY_MAPPING_get(category_lower) ==
    CASE category_lower = s_economics -> <<s_financials, s_economics>>
      [] category_lower = s_crypto -> <<s_financials>>
      [] category_lower = s_politics -> <<s_politics, s_elections>>
      [] category_lower = s_elections -> <<s_elections>>
      [] category_lower = s_financials -> <<s_financials>>
      [] category_lower = s_sports -> <<s_sports>>
      [] category_lower = s_entertainment -> <<s_entertainment>>
      [] category_lower = s_climate -> <<s_climate_and_weather>>
      [] category_lower = s_weather -> <<s_climate_and_weather>>
      [] category_lower = s_health -> <<s_health>>
      [] category_lower = s_science -> <<s_science_and_technology>>
      [] category_lower = s_technology -> <<s_science_and_technology>>
      [] category_lower = s_world -> <<s_world>>
      [] category_lower = s_companies -> <<s_companies>>
      [] category_lower = s_social -> <<s_social>>
      [] category_lower = s_transportation -> <<s_transportation>>
      [] OTHER -> <<category_lower>>

CRYPTO_KEYWORDS ==
    <<
    <<"b", "i", "t", "c", "o", "i", "n">>,
    <<"b", "t", "c">>,
    <<"e", "t", "h", "e", "r", "e", "u", "m">>,
    <<"e", "t", "h">>,
    <<"c", "r", "y", "p", "t", "o">>,
    <<"c", "r", "y", "p", "t", "o", "c", "u", "r", "r", "e", "n", "c", "y">>,
    <<"s", "o", "l", "a", "n", "a">>,
    <<"s", "o", "l">>,
    <<"d", "o", "g", "e", "c", "o", "i", "n">>,
    <<"d", "o", "g", "e">>,
    <<"x", "r", "p">>,
    <<"r", "i", "p", "p", "l", "e">>,
    <<"c", "a", "r", "d", "a", "n", "o">>,
    <<"a", "d", "a">>,
    <<"p", "o", "l", "k", "a", "d", "o", "t">>,
    <<"d", "o", "t">>,
    <<"a", "v", "a", "l", "a", "n", "c", "h", "e">>,
    <<"a", "v", "a", "x">>,
    <<"c", "h", "a", "i", "n", "l", "i", "n", "k">>,
    <<"l", "i", "n", "k">>,
    <<"p", "o", "l", "y", "g", "o", "n">>,
    <<"m", "a", "t", "i", "c">>,
    <<"l", "i", "t", "e", "c", "o", "i", "n">>,
    <<"l", "t", "c">>,
    <<"u", "n", "i", "s", "w", "a", "p">>,
    <<"u", "n", "i">>,
    <<"s", "h", "i", "b", "a">>,
    <<"p", "e", "p", "e">>,
    <<"m", "e", "m", "e", "c", "o", "i", "n">>,
    <<"a", "l", "t", "c", "o", "i", "n">>,
    <<"d", "e", "f", "i">>,
    <<"n", "f", "t">>,
    <<"w", "e", "b", "3">>,
    <<"b", "i", "n", "a", "n", "c", "e">>,
    <<"c", "o", "i", "n", "b", "a", "s", "e">>,
    <<"s", "t", "a", "b", "l", "e", "c", "o", "i", "n">>,
    <<"u", "s", "d", "t">>,
    <<"u", "s", "d", "c">>
    >>

\* ------------------------------------------------------------------------
\* JSON fields of the upstream records
\* ------------------------------------------------------------------------
\* dict.get(key, default): the default is used only when the key is missing
Get(field, default) ==
    IF field.t = "absent" THEN default ELSE field.v

\* ------------------------------------------------------------------------
\* int(float(yes_price) * 100)
\*
\* A numeric yes_bid_dollars is a decimal with three fractional digits,
\* carried as thousandths of a dollar (0.955 is 955).  float() rounds the
\* decimal to the nearest binary64 d, `* 100` rounds the exact product to
\* binary64 again, int() drops the fraction toward zero.
\*
\* Thousandths that are no whole cent: the exact product is at least 0.1
\* away from every integer and the two roundings move it by less than
\* 2^-40, so the result is the decimal's whole cents.
\*
\* Whole cents c > 0: let s be such that 2^52 <= c * 2^s / 100 < 2^53 and
\* T = c * 2^s.  Then d = round(T / 100) / 2^s and the exact product is
\* (T + r) / 2^s with r = 100 * round(T / 100) - T, that is r = -rem when
\* rem = T mod 100 is below 50 and r = 100 - rem otherwise (rem = 50 cannot
\* happen, T being a multiple of 4).  T itself is a binary64 value.  When
\* r >= 0 the rounded product is at least T, and int() gives c.  When r < 0
\* the product rounds back up to T iff |r| is at most half the spacing of
\* binary64 values just below T; otherwise it rounds to a value below T and
\* int() gives c - 1.
\* ------------------------------------------------------------------------
DoubleMantissaBits == 53

RECURSIVE BitLength(_)
BitLength(n) ==
    IF n = 0 THEN 0 ELSE 1 + BitLength(n \div 2)

RECURSIVE Pow2Mod100(_)
Pow2Mod100(n) ==
    IF n = 0 THEN 1 ELSE (2 * Pow2Mod100(n - 1)) % 100

RECURSIVE ScaleUp(_)
ScaleUp(c) ==
    IF c >= 100 THEN 0 ELSE 1 + ScaleUp(2 * c)

RECURSIVE ScaleDown(_)
ScaleDown(c) ==
    IF c < 200 THEN 0 ELSE 1 + ScaleDown(c \div 2)

\* k with 2^52 <= c * 2^(52 + k) / 100 < 2^53
BinaryScale(c) ==
    IF c >= 100 THEN 0 - ScaleDown(c) ELSE ScaleUp(c)

\* int(float("<c cents>") * 100) for c > 0
FloatCentsToPercent(c) ==
    LET k == BinaryScale(c)
        s == (DoubleMantissaBits - 1) + k
        rem == ((c % 100) * Pow2Mod100(s)) % 100
        \* T = c * 2^s has BitLength(c) + s bits; binary64 values in
        \* [2^(b-1), 2^b) are 2^(b-53) apart, those just below a power of
        \* two 2^(b-1) are 2^(b-54) apart
        spacing == IF c = 2 ^ (BitLength(c) - 1)
                   THEN 2 ^ (BitLength(c) + s - DoubleMantissaBits - 1)
                   ELSE 2 ^ (BitLength(c) + s - DoubleMantissaBits)
    IN  IF rem = 0 \/ rem > 50 THEN c
        ELSE IF 2 * rem > spacing THEN c - 1
        ELSE c

\* int(float(yes_price) * 100) for a decimal of `milli` thousandths
FloatToPercent(milli) ==
    LET a == IF milli < 0 THEN 0 - milli ELSE milli
        p == IF a = 0 THEN 0
             ELSE IF a % 10 # 0 THEN a \div 10
             ELSE FloatCentsToPercent(a \div 10)
    IN  IF milli < 0 THEN 0 - p ELSE p

\* yes_price = market.get("yes_bid_dollars", "0"); try: probability =
\* int(float(yes_price) * 100) except (ValueError, TypeError): probability = 0
\* Kinds of yes_bid_dollars: "absent" (key missing, the default "0" is
\* parsed), "null" (TypeError), "text" (a string that is no number,
\* ValueError), "nan" (float() accepts it, int() raises ValueError), "inf"
\* (float() accepts it, int() raises OverflowError, which is not caught),
\* "num" (a decimal, v thousandths).
\* mutant: the except clause names TypeError only
Probability_TypeErrorOnly(market) ==
    LET yes_price == market.yes_bid_dollars
    IN  CASE yes_price.t = "absent" -> [raised |-> FALSE, value |-> FloatToPercent(0)]
          [] yes_price.t = "num"    -> [raised |-> FALSE, value |-> FloatToPercent(yes_price.v)]
          [] yes_price.t = "null"   -> [raised |-> FALSE, value |-> 0]
          [] OTHER                  -> [raised |-> TRUE, value |-> 0]

Probability(market) ==
    LET yes_price == market.yes_bid_dollars
    IN  CASE yes_price.t = "absent" -> [raised |-> FALSE, value |-> FloatToPercent(0)]
          [] yes_price.t = "num"    -> [raised |-> FALSE, value |-> FloatToPercent(yes_price.v)]
          [] yes_price.t = "inf"    -> [raised |-> TRUE, value |-> 0]
          [] OTHER                  -> [raised |-> FALSE, value |-> 0]

\* volume = market.get("volume_24h", 0) or 0
Volume(market) ==
    LET volume == market.volume_24h
    IN  IF volume.t = "num" THEN volume.v ELSE 0

\* total_volume += volume: a volume_24h that is a non-empty string is kept
\* by `or 0`, and int + str is a TypeError
VolumeRaises(market) == market.volume_24h.t = "text"

\* ------------------------------------------------------------------------
\* list.sort(key=..., reverse=True): a stable sort, elements with equal
\* keys keep their order.  `keyed` is a sequence of [k, x] pairs.
\* ------------------------------------------------------------------------
\* mutant: an element goes before the elements of equal key
InsertDescending_BeforeEqual(sorted, e) ==
    LET p == Cardinality({i \in 1..Len(sorted) : sorted[i].k > e.k})
    IN  SubSeq(sorted, 1, p) \o <<e>> \o SubSeq(sorted, p + 1, Len(sorted))

InsertDescending(sorted, e) ==
    LET p == Cardinality({i \in 1..Len(sorted) : sorted[i].k >= e.k})
    IN  SubSeq(sorted, 1, p) \o <<e>> \o SubSeq(sorted, p + 1, Len(sorted))

RECURSIVE SortKeyed(_)
SortKeyed(keyed) ==
    IF keyed = <<>> THEN <<>>
    ELSE InsertDescending(SortKeyed(SubSeq(keyed, 1, Len(keyed) - 1)), keyed[Len(keyed)])

Abs(n) ==
    IF n < 0 THEN 0 - n ELSE n

\* mutant: reverse=True is missing
SortOptions_Ascending(options) ==
    LET sorted == SortKeyed([i \in 1..Len(options) |->
                                [k |-> 0 - options[i].probability, x |-> options[i]]])
    IN  [i \in 1..Len(options) |-> sorted[i].x]

\* options.sort(key=lambda x: x.probability, reverse=True)
SortOptions(options) ==
    LET sorted == SortKeyed([i \in 1..Len(options) |->
                                [k |-> options[i].probability, x |-> options[i]]])
    IN  [i \in 1..Len(options) |-> sorted[i].x]

\* all_events.sort(key=lambda e: e.total_volume, reverse=True)
SortEventsByVolume(evs) ==
    LET sorted == SortKeyed([i \in 1..Len(evs) |-> [k |-> evs[i].total_volume, x |-> evs[i]]])
    IN  [i \in 1..Len(evs) |-> sorted[i].x]

\* all_events.sort(key=lambda e: e.num_markets, reverse=True)
SortEventsByNumMarkets(evs) ==
    LET sorted == SortKeyed([i \in 1..Len(evs) |-> [k |-> evs[i].num_markets, x |-> evs[i]]])
    IN  [i \in 1..Len(evs) |-> sorted[i].x]

\* mutant: the key is the signed change
SortEventsByPriceChange_Signed(evs) ==
    LET sorted == SortKeyed([i \in 1..Len(evs) |->
                                [k |-> evs[i].max_price_change, x |-> evs[i]]])
    IN  [i \in 1..Len(evs) |-> sorted[i].x]

\* all_events.sort(key=lambda e: abs(e.max_price_change), reverse=True)
SortEventsByPriceChange(evs) ==
    LET sorted == SortKeyed([i \in 1..Len(evs) |->
                                [k |-> Abs(evs[i].max_price_change), x |-> evs[i]]])
    IN  [i \in 1..Len(evs) |-> sorted[i].x]

\* mutant: all_events[:top_n - 1]
SliceTo_OneShort(evs, n) ==
    LET m == n - 1
        stop == IF m >= 0
                THEN (IF m < Len(evs) THEN m ELSE Len(evs))
                ELSE (IF Len(evs) + m > 0 THEN Len(evs) + m ELSE 0)
    IN  SubSeq(evs, 1, stop)

\* all_events[:top_n]
SliceTo(evs, n) ==
    LET stop == IF n >= 0
                THEN (IF n < Len(evs) THEN n ELSE Len(evs))
                ELSE (IF Len(evs) + n > 0 THEN Len(evs) + n ELSE 0)
    IN  SubSeq(evs, 1, stop)

\* ------------------------------------------------------------------------
\* Step 3 of get_top_events_by_category: classify and aggregate
\* ------------------------------------------------------------------------
\* any(keyword in event_title for keyword in CRYPTO_KEYWORDS)
KeywordMatches(event_title) ==
    \E i \in 1..Len(CRYPTO_KEYWORDS) : IsIn(CRYPTO_KEYWORDS[i], event_title)

\* mutant: only `target.lower() in event_category` is tested
CategoryMatches_TargetInLabel(target_categories, event_category) ==
    \E i \in 1..Len(target_categories) :
        IsIn(Lower(target_categories[i]), event_category)

\* any(target.lower() in event_category or event_category in target.lower()
\*     for target in target_categories)
CategoryMatches(target_categories, event_category) ==
    \E i \in 1..Len(target_categories) :
        \/ IsIn(Lower(target_categories[i]), event_category)
        \/ IsIn(event_category, Lower(target_categories[i]))

\* mutant: economics keeps the events that crypto takes
Matches_EconomicsKeepsCrypto(category, event) ==
    LET category_lower == Lower(category)
        target_categories == CATEGORY_MAPPING_get(category_lower)
        event_category == Lower(Get(event.category, <<>>))
        event_title == Lower(Get(event.title, <<>>))
        category_matches == CategoryMatches(target_categories, event_category)
    IN  IF category_lower = s_crypto
        THEN category_matches /\ KeywordMatches(event_title)
        ELSE category_matches

Matches(category, event) ==
    LET category_lower == Lower(category)
        target_categories == CATEGORY_MAPPING_get(category_lower)
        event_category == Lower(Get(event.category, <<>>))
        event_title == Lower(Get(event.title, <<>>))
        category_matches == CategoryMatches(target_categories, event_category)
    IN  IF category_lower = s_crypto
        THEN category_matches /\ KeywordMatches(event_title)
        ELSE IF category_lower = s_economics
             THEN category_matches /\ ~KeywordMatches(event_title)
             ELSE category_matches

\* mutant: the test is status != "closed"
IsActive_NotClosed(market) ==
    ~(market.status.t = "str" /\ market.status.v = "closed")

\* m.get("status") == "active"
IsActive(market) ==
    market.status.t = "str" /\ market.status.v = "active"

\* markets = event.get("markets", []);
\* active_markets = [m for m in markets if m.get("status") == "active"]
ActiveMarkets(event) ==
    SelectSeq(Get(event.markets, <<>>), IsActive)

\* MarketOption(name=..., probability=..., volume_24h=..., ticker=...,
\*              price_change_24h=0, series_ticker=series_ticker)
Option(market, series_ticker) ==
    [name             |-> Get(market.yes_sub_title, "Unknown"),
     probability      |-> Probability(market).value,
     volume_24h       |-> Volume(market),
     ticker           |-> Get(market.ticker, ""),
     price_change_24h |-> 0,
     series_ticker    |-> series_ticker]

\* mutant: total_volume = volume in place of total_volume += volume
TotalVolume_Assigned(active_markets) ==
    IF active_markets = <<>> THEN 0
    ELSE Volume(active_markets[Len(active_markets)])

\* total_volume = 0; for market in active_markets: total_volume += volume
RECURSIVE TotalVolume(_)
TotalVolume(active_markets) ==
    IF active_markets = <<>> THEN 0
    ELSE TotalVolume(SubSeq(active_markets, 1, Len(active_markets) - 1))
         + Volume(active_markets[Len(active_markets)])

\* EventData(...) of an accepted event that has an active market
BuildEvent(event) ==
    LET active_markets == ActiveMarkets(event)
        series_ticker == Get(event.series_ticker, "")
        options == SortOptions([i \in 1..Len(active_markets) |->
                                   Option(active_markets[i], series_ticker)])
    IN  [event_ticker     |-> Get(event.event_ticker, ""),
         title            |-> Get(event.title, <<>>),
         category         |-> Get(event.category, <<>>),
         options          |-> options,
         total_volume     |-> TotalVolume(active_markets),
         num_markets      |-> Len(options),
         max_price_change |-> 0,
         series_ticker    |-> series_ticker]

\* the length of the longest market list
MaxMarketList(evs) ==
    IF evs = <<>> THEN 0
    ELSE LET i == CHOOSE k \in 1..Len(evs) :
                    \A l \in 1..Len(evs) :
                        Len(Get(evs[l].markets, <<>>)) <= Len(Get(evs[k].markets, <<>>))
         IN  Len(Get(evs[i].markets, <<>>))

\* the upstream events that pass both `continue` tests of the loop
Survives(category, event) ==
    Matches(category, event) /\ ActiveMarkets(event) # <<>>

\* one iteration of `for market in active_markets` leaves the call: through
\* the OverflowError of int() when the price is infinite, else through the
\* TypeError of total_volume += volume
MarketRaises(market) == Probability(market).raised \/ VolumeRaises(market)

MarketException(market) ==
    IF Probability(market).raised THEN "OverflowError" ELSE "TypeError"

\* the active markets of the matching events, in the order of the loops,
\* that leave the call
RaisingMarkets(category, evs) ==
    {p \in (1..Len(evs)) \X (1..MaxMarketList(evs)) :
        /\ Matches(category, evs[p[1]])
        /\ p[2] <= Len(ActiveMarkets(evs[p[1]]))
        /\ MarketRaises(ActiveMarkets(evs[p[1]])[p[2]])}

BuildRaises(category, evs) == RaisingMarkets(category, evs) # {}

\* the exception of the first market that raises
BuildException(category, evs) ==
    LET raising == RaisingMarkets(category, evs)
        first == CHOOSE p \in raising :
                    \A q \in raising : p[1] < q[1] \/ (p[1] = q[1] /\ p[2] <= q[2])
    IN  MarketException(ActiveMarkets(evs[first[1]])[first[2]])

BuildAllEvents(category, evs) ==
    LET kept == SelectSeq(evs, LAMBDA e : Survives(category, e))
    IN  [i \in 1..Len(kept) |-> BuildEvent(kept[i])]

\* ------------------------------------------------------------------------
\* get_market_candlesticks and get_price_change_24h
\* ------------------------------------------------------------------------
\* A lookup is [ok, candlesticks]: ok = FALSE is a request that failed and
\* that get_market_candlesticks turns into {"candlesticks": []}.  A candle
\* is [price |-> field]; the payload of a present price is a record of the
\* fields open, close and previous.
NoPrice == [open |-> [t |-> "absent", v |-> 0], close |-> [t |-> "absent", v |-> 0],
            previous |-> [t |-> "absent", v |-> 0]]

get_market_candlesticks(lookup) ==
    IF lookup.ok THEN lookup.candlesticks ELSE <<>>

\* price.get(name, 0) or 0
PriceOrZero(field) ==
    IF field.t = "num" THEN field.v ELSE 0

\* [raised, value]: raised when candle["price"] is null, so that
\* price.get fails with AttributeError
get_price_change_24h(lookup) ==
    LET candlesticks == get_market_candlesticks(lookup)
        candle == candlesticks[Len(candlesticks)]
        price == Get(candle.price, NoPrice)
        open_price == PriceOrZero(price.open)
        close_price == PriceOrZero(price.close)
        previous_price == PriceOrZero(price.previous)
    IN  IF candlesticks = <<>> THEN [raised |-> FALSE, value |-> 0]
        ELSE IF candle.price.t = "null" THEN [raised |-> TRUE, value |-> 0]
        ELSE IF previous_price # 0
             THEN [raised |-> FALSE, value |-> close_price - previous_price]
        ELSE IF open_price # 0
             THEN [raised |-> FALSE, value |-> close_price - open_price]
        ELSE [raised |-> FALSE, value |-> 0]

\* ------------------------------------------------------------------------
\* State of one call of get_top_events_by_category
\* ------------------------------------------------------------------------
VARIABLES
    upstream,     \* the open events the API holds when the call is made
    candle_api,   \* the responses the candle endpoint may give to a lookup
    events_request, \* the request of get_events: "pending", "ok" or "failed"
    previous_call, \* [state, result, lookups]: state is "single" when the
                  \* caller makes one call, "first" when it will repeat the
                  \* call, "second" in the repeated call, which then holds
                  \* the result and the lookups of the first one
    args,         \* the arguments of the call: category, top_n, sort_by
    pc,           \* "call", "build", "rank", "return", "done" or "raised"
    events,       \* events_response.get("events", [])
    all_events,   \* the list of EventData under construction
    event_i,      \* position of the enrichment loop in all_events
    option_i,     \* position of the enrichment loop in the event's options
    max_change,   \* the local max_change of the enrichment loop
    lookups,      \* the candle lookups issued so far, with their responses
    result,       \* the returned list
    exception     \* the exception that left the call, "" when none did

\* ------------------------------------------------------------------------
\* State of the bot of telegram_bot.py
\* ------------------------------------------------------------------------
VARIABLES
    subscriptions_file, \* the content of subscribed_chats.json
    subscribed_chats,   \* the global dict: str(chat_id) -> {"hour": hour}
    keyboards,          \* the chats to which /settime has shown its keyboard
    clock,              \* datetime.now(SGT).hour at the next hourly run
    runs,               \* the hourly runs of send_hourly_update so far
    job,                \* the locals of the run of send_hourly_update
    delivered           \* chat_id -> scheduled updates sent to the chat since
                        \* it subscribed

bot_vars == <<subscriptions_file, subscribed_chats, keyboards, clock, runs, job, delivered>>

vars == <<upstream, candle_api, events_request, previous_call, args, pc, events, all_events,
          event_i, option_i, max_change, lookups, result, exception, bot_vars>>

\* def get_top_events_by_category(self, category, top_n=10, sort_by="volume")
DEFAULT_TOP_N == 10

category == args.category

\* mutant: without top_n every event is returned
top_n_Unlimited ==
    IF args.top_n.t = "absent" THEN Len(all_events) ELSE args.top_n.v

top_n == Get(args.top_n, DEFAULT_TOP_N)

sort_by == Get(args.sort_by, "volume")

\* ------------------------------------------------------------------------
\* Inputs: upstream snapshots and call arguments
\* ------------------------------------------------------------------------
MaxMarkets == 2
MaxEvents == 3
MaxEnriched == 2
MaxListed == 11

Str(s) == [t |-> "str", v |-> s]
Num(n) == [t |-> "num", v |-> n]
NoStr == [t |-> "absent", v |-> ""]
NoText == [t |-> "absent", v |-> <<>>]
NoNum == [t |-> "absent", v |-> 0]
NullNum == [t |-> "null", v |-> 0]
NoList == [t |-> "absent", v |-> <<>>]
List(l) == [t |-> "list", v |-> l]

SeqsUpTo(S, n) == UNION {[1..k -> S] : k \in 0..n}

EventTickers ==
    <<"E1", "E2", "E3", "E4", "E5", "E6", "E7", "E8", "E9", "E10", "E11", "E12", "E13",
      "E14", "E15", "E16">>

MarketTickers == <<"M1", "M2", "M3", "M4", "M5", "M6">>
txt_Financials == <<"F", "i", "n", "a", "n", "c", "i", "a", "l", "s">>
txt_Politics == <<"P", "o", "l", "i", "t", "i", "c", "s">>
txt_Economics == <<"E", "c", "o", "n", "o", "m", "i", "c", "s">>
txt_Sports == <<"S", "p", "o", "r", "t", "s">>
txt_Elections == <<"E", "l", "e", "c", "t", "i", "o", "n", "s">>
txt_Crypto == <<"C", "r", "y", "p", "t", "o">>
txt_World == <<"W", "o", "r", "l", "d">>
txt_FINANCIALS == <<"F", "I", "N", "A", "N", "C", "I", "A", "L", "S">>
txt_Elect == <<"E", "l", "e", "c", "t">>
txt_Fin == <<"F", "i", "n">>
txt_FedTitle == <<"F", "e", "d", " ", "c", "u", "t", "?">>
txt_BitcoinTitle == <<"B", "i", "t", "c", "o", "i", "n", " ", "1", "0", "0", "k", "?">>
txt_SolarTitle == <<"S", "o", "l", "a", "r", " ", "p", "e", "a", "k", "?">>
txt_VoteTitle == <<"V", "o", "t", "e", "?">>

Market(i, status, price, volume) ==
    [ticker          |-> Str(MarketTickers[i]),
     status          |-> status,
     yes_bid_dollars |-> price,
     yes_sub_title   |-> Str("Yes"),
     volume_24h      |-> volume]

\* an upstream event without its ticker
Template(cat, title, series, markets) ==
    [category |-> cat, title |-> title, series_ticker |-> series, markets |-> markets]

\* the snapshot made of the templates, event i carrying the ticker E<i>
Snapshot(templates) ==
    [i \in 1..Len(templates) |->
        [event_ticker  |-> Str(EventTickers[i]),
         title         |-> templates[i].title,
         category      |-> templates[i].category,
         series_ticker |-> templates[i].series_ticker,
         markets       |-> templates[i].markets]]

Call(cat, n, sort) ==
    [category |-> cat, top_n |-> n, sort_by |-> sort]

Active == Str("active")
Closed == Str("closed")

\* 1. one event, every kind of yes_bid_dollars
PriceMillis == {-10, 5, 290, 955, 1000, 1500}

Prices ==
    {NoNum, NullNum, [t |-> "text", v |-> 0], [t |-> "nan", v |-> 0], [t |-> "inf", v |-> 0]}
    \cup {Num(m) : m \in PriceMillis}

PriceScenarios ==
    {[upstream |-> Snapshot(<<Template(Str(txt_Financials), Str(txt_FedTitle), Str("S"),
                                List([i \in 1..Len(ps) |-> Market(i, Active, ps[i], Num(3))]))>>),
      args     |-> Call(txt_Economics, NoNum, NoStr)] :
        ps \in SeqsUpTo(Prices, MaxMarkets) \ {<<>>}}

\* 2. one event, every kind of status and of volume_24h, with or without
\*    a market list
Statuses == {Active, Closed, Str("Active"), NoStr}

Volumes == {NoNum, NullNum, [t |-> "text", v |-> 0], Num(0), Num(3)}

StatusAndVolume ==
    (Statuses \X {Num(3)}) \cup ({Active} \X Volumes)

StatusScenarios ==
    {[upstream |-> Snapshot(<<Template(Str(txt_Politics), Str(txt_VoteTitle), Str("S"), ms)>>),
      args     |-> Call(txt_Politics, Num(5), Str("num_markets"))] :
        ms \in {NoList} \cup
               {List([i \in 1..Len(sv) |-> Market(i, sv[i][1], Num(500), sv[i][2])]) :
                    sv \in SeqsUpTo(StatusAndVolume, MaxMarkets)}}

\* 3. several events to rank: without market list, with equal and different
\*    volumes, option counts and probabilities, with a closed market, and
\*    one of another category
RankTemplates ==
    {Template(Str(txt_Politics), Str(txt_VoteTitle), Str("S"), NoList),
     Template(Str(txt_Politics), Str(txt_VoteTitle), Str("S"),
              List(<<Market(1, Active, Num(500), Num(3))>>)),
     Template(Str(txt_Elections), Str(txt_VoteTitle), Str("S"),
              List(<<Market(1, Active, Num(200), Num(1)), Market(2, Active, Num(700), Num(2))>>)),
     Template(Str(txt_Politics), Str(txt_VoteTitle), Str("S"),
              List(<<Market(1, Active, [t |-> "text", v |-> 0], Num(4)),
                     Market(2, Closed, Num(300), Num(9)),
                     [Market(3, Active, Num(700), NullNum) EXCEPT !.yes_sub_title = NoStr],
                     Market(4, Active, Num(700), Num(1))>>)),
     Template(Str(txt_Sports), Str(txt_VoteTitle), Str("S"),
              List(<<Market(1, Active, Num(500), Num(8))>>))}

\* every top_n with the default sort, every sort_by with top_n = 2
RankCalls ==
    {Call(txt_Politics, n, NoStr) : n \in {NoNum, Num(-1), Num(0), Num(2)}}
    \cup {Call(txt_Politics, Num(2), Str(sort)) : sort \in {"num_markets", "title"}}

RankScenarios ==
    {[upstream |-> Snapshot(ts), args |-> c] :
        ts \in SeqsUpTo(RankTemplates, MaxEvents), c \in RankCalls}

\* 4. events to enrich: with two options to look up, without series
\*    ticker, and with a market that has no ticker
EnrichTemplates ==
    {Template(Str(txt_Economics), Str(txt_FedTitle), Str("S"),
              List(<<Market(1, Active, Num(200), Num(1)), Market(2, Active, Num(700), Num(2))>>)),
     Template(Str(txt_Financials), Str(txt_FedTitle), NoStr,
              List(<<Market(1, Active, Num(500), Num(3))>>)),
     Template(Str(txt_Financials), Str(txt_FedTitle), Str("S"),
              List(<<[Market(1, Active, Num(600), Num(2)) EXCEPT !.ticker = Str("")],
                     Market(2, Active, Num(300), Num(2))>>))}

EnrichScenarios ==
    {[upstream |-> Snapshot(ts), args |-> Call(txt_Economics, n, Str("price_change"))] :
        ts \in SeqsUpTo(EnrichTemplates, MaxEnriched), n \in {Num(2)}}

\* two events to enrich of which one is returned
EnrichCutScenarios ==
    {[upstream |-> Snapshot(<<t1, t2>>), args |-> Call(txt_Economics, Num(1), Str("price_change"))] :
        t1 \in EnrichTemplates, t2 \in EnrichTemplates}

\* 5. long lists, longer than the default top_n, of volumes 2, 3, 1, 2, ...
ListedTemplate(i) ==
    Template(Str(txt_Politics), Str(txt_VoteTitle), NoStr,
             List(<<Market(1, Active, Num(500), Num(1 + (i % 3)))>>))

ListedScenarios ==
    {[upstream |-> Snapshot([i \in 1..k |-> ListedTemplate(i)]),
      args     |-> Call(txt_Politics, NoNum, Str("volume"))] : k \in 0..MaxListed}

\* 6. one event, requested categories against upstream labels and titles
CategoryScenarios ==
    {[upstream |-> Snapshot(<<Template(label, title, Str("S"),
                                List(<<Market(1, Active, Num(500), Num(3))>>))>>),
      args     |-> Call(cat, Num(5), Str("volume"))] :
        cat \in {txt_Crypto, txt_Economics, txt_Politics, txt_World, txt_Fin},
        label \in {Str(txt_Financials), Str(txt_FINANCIALS), Str(txt_Politics), Str(txt_Elections),
                   Str(txt_Elect), Str(<<>>), NoText},
        title \in {Str(txt_FedTitle), Str(txt_BitcoinTitle), Str(txt_SolarTitle)}}

Scenarios ==
    PriceScenarios \cup StatusScenarios \cup RankScenarios \cup EnrichScenarios
    \cup EnrichCutScenarios
    \cup ListedScenarios \cup CategoryScenarios

\* the responses of the candle endpoint to one lookup
Candle(open, close, previous) ==
    [price |-> [t |-> "dict", v |-> [open |-> open, close |-> close, previous |-> previous]]]

Lookups ==
    {[ok |-> FALSE, candlesticks |-> <<>>],
     [ok |-> TRUE, candlesticks |-> <<Candle(Num(35), Num(33), Num(40))>>],
     [ok |-> TRUE, candlesticks |-> <<Candle(Num(50), Num(55), NoNum)>>]}

\* 7. one event with two options, every kind of response of the candle
\*    endpoint: a failed request, no candle, a candle without price, with a
\*    null price, and prices whose fields are numbers, zero, null or missing
CandleResponses ==
    {[ok |-> FALSE, candlesticks |-> <<>>],
     [ok |-> TRUE, candlesticks |-> <<>>],
     [ok |-> TRUE, candlesticks |-> <<[price |-> [t |-> "absent", v |-> NoPrice]]>>],
     [ok |-> TRUE, candlesticks |-> <<[price |-> [t |-> "null", v |-> NoPrice]]>>],
     [ok |-> TRUE, candlesticks |-> <<Candle(NoNum, NoNum, NoNum)>>],
     [ok |-> TRUE, candlesticks |-> <<Candle(Num(35), Num(33), Num(40))>>],
     [ok |-> TRUE, candlesticks |-> <<Candle(Num(50), Num(55), NoNum)>>],
     [ok |-> TRUE, candlesticks |-> <<Candle(Num(50), Num(56), NullNum)>>],
     [ok |-> TRUE, candlesticks |-> <<Candle(Num(50), Num(55), Num(0))>>],
     [ok |-> TRUE, candlesticks |-> <<Candle(Num(0), Num(9), NoNum)>>],
     [ok |-> TRUE, candlesticks |-> <<Candle(NullNum, NullNum, Num(40))>>],
     [ok |-> TRUE, candlesticks |-> <<Candle(Num(50), NoNum, NoNum)>>],
     [ok |-> TRUE, candlesticks |-> <<Candle(Num(1), Num(2), Num(3)), Candle(NoNum, Num(50), Num(43))>>]}

CandleScenarios ==
    {[upstream |-> Snapshot(<<Template(Str(txt_Economics), Str(txt_FedTitle), Str("S"),
                                List(<<Market(1, Active, Num(200), Num(1)),
                                       Market(2, Active, Num(700), Num(2))>>))>>),
      args     |-> Call(txt_Economics, Num(5), Str("price_change"))]}

\* the chats that talk to the bot
ChatIds == {42, -7}

\* The content of subscribed_chats.json: a file that does not exist, one
\* that json.load rejects, a JSON list of chat ids (the old format) and a
\* JSON object (the new format).  An object is the sequence of its members
\* as they stand in the file; of the value of a member the model keeps the
\* field "hour", the only one the bot reads or writes.
NoFile == [t |-> "missing", ids |-> <<>>, members |-> <<>>]
CorruptFile == [t |-> "corrupt", ids |-> <<>>, members |-> <<>>]
ListFile(ids) == [t |-> "list", ids |-> ids, members |-> <<>>]
DictFile(members) == [t |-> "dict", ids |-> <<>>, members |-> members]

\* send_hourly_update is not running
IdleJob == [pc |-> "idle", current_hour |-> 0, chats_to_update |-> <<>>, chat_i |-> 1,
            failed_chats |-> <<>>]

\* the bot while the model follows a call of the client
BotIdle ==
    /\ subscriptions_file = NoFile
    /\ subscribed_chats = <<>>
    /\ keyboards = {}
    /\ clock = 0
    /\ runs = 0
    /\ job = IdleJob
    /\ delivered = [chat_id \in ChatIds |-> 0]

\* the scenarios in which the caller repeats its call on the same snapshot
RepeatScenarios == EnrichCutScenarios \cup CandleScenarios

\* ------------------------------------------------------------------------
\* The call
\* ------------------------------------------------------------------------
Init ==
    /\ \E sc \in Scenarios \cup CandleScenarios :
          /\ upstream = sc.upstream
          /\ args = sc.args
          /\ candle_api = IF sc \in CandleScenarios THEN CandleResponses ELSE Lookups
          /\ previous_call = [state   |-> IF sc \in RepeatScenarios THEN "first" ELSE "single",
                              result  |-> <<>>,
                              lookups |-> <<>>]
    /\ events_request = "pending"
    /\ pc = "call"
    /\ events = <<>>
    /\ all_events = <<>>
    /\ event_i = 1
    /\ option_i = 1
    /\ max_change = 0
    /\ lookups = <<>>
    /\ result = <<>>
    /\ exception = ""
    /\ BotIdle

\* Step 1: events_response = self.get_events(...);
\*         events = events_response.get("events", [])
GetEvents ==
    /\ pc = "call"
    /\ events_request' = "ok"
    /\ events' = upstream
    /\ pc' = "build"
    /\ UNCHANGED <<bot_vars, upstream, args, previous_call, candle_api, all_events, event_i, option_i, max_change, lookups, result, exception>>

\* mutant: get_events answers a failed request with an empty listing, as
\* get_market_candlesticks does
GetEventsFails_Swallowed ==
    /\ pc = "call"
    /\ events_request' = "failed"
    /\ events' = <<>>
    /\ pc' = "build"
    /\ UNCHANGED <<bot_vars, upstream, args, previous_call, candle_api, all_events, event_i, option_i, max_change,
                   lookups, result, exception>>

\* _make_request re-raises the failure of the request
GetEventsFails ==
    /\ pc = "call"
    /\ events_request' = "failed"
    /\ pc' = "raised"
    /\ exception' = "RequestException"
    /\ UNCHANGED <<bot_vars, upstream, args, previous_call, candle_api, events, all_events, event_i, option_i, max_change,
                   lookups, result>>

\* Steps 2 and 3: the loop over the fetched events
BuildEvents ==
    /\ pc = "build"
    /\ ~BuildRaises(category, events)
    /\ all_events' = BuildAllEvents(category, events)
    /\ pc' = "rank"
    /\ UNCHANGED <<bot_vars, upstream, args, previous_call, candle_api, events_request, events, event_i, option_i, max_change, lookups, result, exception>>

BuildEventsRaises ==
    /\ pc = "build"
    /\ BuildRaises(category, events)
    /\ pc' = "raised"
    /\ exception' = BuildException(category, events)
    /\ UNCHANGED <<bot_vars, upstream, args, previous_call, candle_api, events_request, events, all_events, event_i, option_i, max_change,
                   lookups, result>>

\* Step 4, sort_by == "volume"
SortByVolume ==
    /\ pc = "rank"
    /\ sort_by = "volume"
    /\ all_events' = SortEventsByVolume(all_events)
    /\ pc' = "return"
    /\ UNCHANGED <<bot_vars, upstream, args, previous_call, candle_api, events_request, events, event_i, option_i, max_change, lookups, result, exception>>

\* Step 4, sort_by == "num_markets"
SortByNumMarkets ==
    /\ pc = "rank"
    /\ sort_by = "num_markets"
    /\ all_events' = SortEventsByNumMarkets(all_events)
    /\ pc' = "return"
    /\ UNCHANGED <<bot_vars, upstream, args, previous_call, candle_api, events_request, events, event_i, option_i, max_change, lookups, result, exception>>

\* mutant: max_change = 0 stands before the loop over the events
NextOption_KeepsMax(evs, new_max) ==
    IF option_i < Len(evs[event_i].options)
    THEN /\ all_events' = evs
         /\ option_i' = option_i + 1
         /\ event_i' = event_i
         /\ max_change' = new_max
    ELSE /\ all_events' = [evs EXCEPT ![event_i].max_price_change = new_max]
         /\ option_i' = 1
         /\ event_i' = event_i + 1
         /\ max_change' = new_max

\* mutant: the loop ends an event with event_data.total_volume = max_change
NextOption_IntoTotalVolume(evs, new_max) ==
    IF option_i < Len(evs[event_i].options)
    THEN /\ all_events' = evs
         /\ option_i' = option_i + 1
         /\ event_i' = event_i
         /\ max_change' = new_max
    ELSE /\ all_events' = [evs EXCEPT ![event_i].total_volume = new_max]
         /\ option_i' = 1
         /\ event_i' = event_i + 1
         /\ max_change' = 0

\* the end of one iteration of `for option in event_data.options`: the next
\* option, or event_data.max_price_change = max_change and the next event
NextOption(evs, new_max) ==
    IF option_i < Len(evs[event_i].options)
    THEN /\ all_events' = evs
         /\ option_i' = option_i + 1
         /\ event_i' = event_i
         /\ max_change' = new_max
    ELSE /\ all_events' = [evs EXCEPT ![event_i].max_price_change = new_max]
         /\ option_i' = 1
         /\ event_i' = event_i + 1
         /\ max_change' = 0

\* mutant: the test is option.series_ticker or option.ticker
HasTickers_Either(option) == option.series_ticker # "" \/ option.ticker # ""

\* if option.series_ticker and option.ticker
HasTickers(option) == option.series_ticker # "" /\ option.ticker # ""

\* mutant: the test is abs(change) >= abs(max_change)
NewMax_LastWins(change, old_max) ==
    IF Abs(change) >= Abs(old_max) THEN change ELSE old_max

\* if abs(change) > abs(max_change): max_change = change
NewMax(change, old_max) ==
    IF Abs(change) > Abs(old_max) THEN change ELSE old_max

\* the entry of `lookups` for one call of get_price_change_24h
Lookup(event_data, option, response) ==
    [event_ticker  |-> event_data.event_ticker,
     series_ticker |-> option.series_ticker,
     ticker        |-> option.ticker,
     response      |-> response]

\* the responses the candle endpoint may give to the lookup of an option:
\* in a repeated call, the response it gave in the first call
Responses(event_data, option) ==
    IF previous_call.state = "second"
    THEN {previous_call.lookups[k].response : k \in
            {k \in 1..Len(previous_call.lookups) :
                /\ previous_call.lookups[k].event_ticker = event_data.event_ticker
                /\ previous_call.lookups[k].ticker = option.ticker}}
    ELSE candle_api

\* mutant: the enrichment is not tied to sort_by == "price_change"
EnrichOption_AnySort ==
    /\ pc = "rank"
    /\ event_i <= Len(all_events)
    /\ LET option == all_events[event_i].options[option_i]
       IN  /\ HasTickers(option)
           /\ \E lookup \in Responses(all_events[event_i], option) :
                LET change == get_price_change_24h(lookup)
                IN  /\ lookups' = Append(lookups, Lookup(all_events[event_i], option, lookup))
                    /\ IF change.raised
                       THEN NextOption(all_events, max_change)
                       ELSE NextOption(
                              [all_events EXCEPT
                                  ![event_i].options[option_i].price_change_24h = change.value],
                              NewMax(change.value, max_change))
    /\ UNCHANGED <<bot_vars, upstream, args, previous_call, candle_api, events_request, pc, events, result, exception>>

\* mutant: the loop has no try/except around get_price_change_24h
EnrichOption_NoExcept ==
    /\ pc = "rank"
    /\ sort_by = "price_change"
    /\ event_i <= Len(all_events)
    /\ LET option == all_events[event_i].options[option_i]
       IN  /\ HasTickers(option)
           /\ \E lookup \in Responses(all_events[event_i], option) :
                LET change == get_price_change_24h(lookup)
                IN  /\ lookups' = Append(lookups, Lookup(all_events[event_i], option, lookup))
                    /\ IF change.raised
                       THEN /\ pc' = "raised"
                            /\ exception' = "AttributeError"
                            /\ UNCHANGED <<all_events, event_i, option_i, max_change>>
                       ELSE /\ NextOption(
                                 [all_events EXCEPT
                                     ![event_i].options[option_i].price_change_24h = change.value],
                                 NewMax(change.value, max_change))
                            /\ UNCHANGED <<pc, exception>>
    /\ UNCHANGED <<bot_vars, upstream, args, previous_call, candle_api, events_request, events, result>>

\* Step 4, sort_by == "price_change": one option with both tickers
EnrichOption ==
    /\ pc = "rank"
    /\ sort_by = "price_change"
    /\ event_i <= Len(all_events)
    /\ LET option == all_events[event_i].options[option_i]
       IN  /\ HasTickers(option)
           /\ \E lookup \in Responses(all_events[event_i], option) :
                LET change == get_price_change_24h(lookup)
                IN  /\ lookups' = Append(lookups, Lookup(all_events[event_i], option, lookup))
                    /\ IF change.raised
                       THEN NextOption(all_events, max_change)
                       ELSE NextOption(
                              [all_events EXCEPT
                                  ![event_i].options[option_i].price_change_24h = change.value],
                              NewMax(change.value, max_change))
    /\ UNCHANGED <<bot_vars, upstream, args, previous_call, candle_api, events_request, pc, events, result, exception>>

\* Step 4, sort_by == "price_change": an option that lacks a ticker
SkipOption ==
    /\ pc = "rank"
    /\ sort_by = "price_change"
    /\ event_i <= Len(all_events)
    /\ LET option == all_events[event_i].options[option_i]
       IN  ~HasTickers(option)
    /\ NextOption(all_events, max_change)
    /\ UNCHANGED <<bot_vars, upstream, args, previous_call, candle_api, events_request, pc, events, lookups, result, exception>>

\* Step 4, sort_by == "price_change": the sort that follows the loop
SortByPriceChange ==
    /\ pc = "rank"
    /\ sort_by = "price_change"
    /\ event_i > Len(all_events)
    /\ all_events' = SortEventsByPriceChange(all_events)
    /\ pc' = "return"
    /\ UNCHANGED <<bot_vars, upstream, args, previous_call, candle_api, events_request, events, event_i, option_i, max_change, lookups, result, exception>>

\* mutant: an unknown sort_by falls back to the sort by volume
NoSort_FallsBackToVolume ==
    /\ pc = "rank"
    /\ sort_by \notin {"volume", "num_markets", "price_change"}
    /\ all_events' = SortEventsByVolume(all_events)
    /\ pc' = "return"
    /\ UNCHANGED <<bot_vars, upstream, args, previous_call, candle_api, events_request, events, event_i,
                   option_i, max_change, lookups, result, exception>>

\* Step 4, any other sort_by: no branch is taken
NoSort ==
    /\ pc = "rank"
    /\ sort_by \notin {"volume", "num_markets", "price_change"}
    /\ pc' = "return"
    /\ UNCHANGED <<bot_vars, upstream, args, previous_call, candle_api, events_request, events, all_events, event_i, option_i, max_change,
                   lookups, result, exception>>

\* Step 5: return all_events[:top_n]
Return ==
    /\ pc = "return"
    /\ result' = SliceTo(all_events, top_n)
    /\ pc' = "done"
    /\ UNCHANGED <<bot_vars, upstream, args, previous_call, candle_api, events_request, events, all_events, event_i, option_i, max_change, lookups, exception>>

\* mutant: the position of the enrichment loop outlives the call
CallAgain_KeepsLoopPosition ==
    /\ pc = "done"
    /\ previous_call.state = "first"
    /\ previous_call' = [state |-> "second", result |-> result, lookups |-> lookups]
    /\ events_request' = "pending"
    /\ pc' = "call"
    /\ events' = <<>>
    /\ all_events' = <<>>
    /\ max_change' = 0
    /\ lookups' = <<>>
    /\ result' = <<>>
    /\ exception' = ""
    /\ UNCHANGED <<bot_vars, upstream, args, candle_api, event_i, option_i>>

\* the caller calls get_top_events_by_category again with the same arguments
\* while the API holds the same snapshot: a new invocation, whose locals
\* start afresh
CallAgain ==
    /\ pc = "done"
    /\ previous_call.state = "first"
    /\ previous_call' = [state |-> "second", result |-> result, lookups |-> lookups]
    /\ events_request' = "pending"
    /\ pc' = "call"
    /\ events' = <<>>
    /\ all_events' = <<>>
    /\ event_i' = 1
    /\ option_i' = 1
    /\ max_change' = 0
    /\ lookups' = <<>>
    /\ result' = <<>>
    /\ exception' = ""
    /\ UNCHANGED <<bot_vars, upstream, args, candle_api>>

Next ==
    \/ GetEvents
    \/ GetEventsFails
    \/ BuildEvents
    \/ BuildEventsRaises
    \/ SortByVolume
    \/ SortByNumMarkets
    \/ EnrichOption
    \/ SkipOption
    \/ SortByPriceChange
    \/ NoSort
    \/ Return
    \/ CallAgain

Spec == Init /\ [][Next]_vars

\* ------------------------------------------------------------------------
\* Properties
\* ------------------------------------------------------------------------
\* the upstream event an EventData was built from, found by its ticker
UpstreamOf(event_data) ==
    upstream[CHOOSE i \in 1..Len(upstream) :
                Get(upstream[i].event_ticker, "") = event_data.event_ticker]

UpstreamPosition(event_data) ==
    CHOOSE i \in 1..Len(upstream) : Get(upstream[i].event_ticker, "") = event_data.event_ticker

\* position, in the upstream market list of its event, of the market an
\* option was built from
MarketPosition(event_data, option) ==
    CHOOSE j \in 1..Len(Get(UpstreamOf(event_data).markets, <<>>)) :
        Get(Get(UpstreamOf(event_data).markets, <<>>)[j].ticker, "") = option.ticker

MarketOf(event_data, option) ==
    Get(UpstreamOf(event_data).markets, <<>>)[MarketPosition(event_data, option)]

\* the list under construction is complete (the loop of step 3 has ended)
Built == pc \in {"rank", "return", "done"}

\* C1: every option of every returned event has a probability within 0..100,
\* whatever the upstream bid price is.
C1_ProbabilityWithin0And100 ==
    pc = "done" =>
        \A i \in 1..Len(result) : \A j \in 1..Len(result[i].options) :
            result[i].options[j].probability \in 0..100

\* C2: an active market whose bid price is a number p with 0 <= p <= 1
\* yields the probability floor(p * 100); p is v thousandths, so the floor
\* is v \div 10.
C2_ProbabilityIsFloor ==
    pc = "done" =>
        \A i \in 1..Len(result) : \A j \in 1..Len(result[i].options) :
            LET yes_price == MarketOf(result[i], result[i].options[j]).yes_bid_dollars
            IN  (yes_price.t = "num" /\ yes_price.v \in 0..1000) =>
                    result[i].options[j].probability = yes_price.v \div 10

NonNumeric(market) ==
    market.yes_bid_dollars.t \in {"absent", "null", "text"}

\* C3: a market whose bid price is absent, null or no number yields an
\* option of probability 0; the call raises nothing because of it (it
\* raises only when the request failed or some accepted active market has an
\* infinite price), and every accepted event that has an active market is
\* built with one option for each of its active markets.
C3_NonNumericPriceYieldsZero ==
    /\ pc = "raised" =>
          \/ exception = "RequestException"
          \/ /\ exception = "TypeError"
             /\ \E i \in 1..Len(upstream) : \E j \in 1..Len(ActiveMarkets(upstream[i])) :
                   ActiveMarkets(upstream[i])[j].volume_24h.t = "text"
          \/ \E i \in 1..Len(upstream) :
                /\ Matches(category, upstream[i])
                /\ \E j \in 1..Len(Get(upstream[i].markets, <<>>)) :
                      /\ IsActive(Get(upstream[i].markets, <<>>)[j])
                      /\ Get(upstream[i].markets, <<>>)[j].yes_bid_dollars.t = "inf"
    /\ Built =>
          /\ \A i \in 1..Len(upstream) :
                (Matches(category, upstream[i]) /\ ActiveMarkets(upstream[i]) # <<>>) =>
                    \E e \in 1..Len(all_events) :
                        /\ all_events[e].event_ticker = Get(upstream[i].event_ticker, "")
                        /\ Len(all_events[e].options) = Len(ActiveMarkets(upstream[i]))
                        /\ \A m \in 1..Len(ActiveMarkets(upstream[i])) :
                              \E o \in 1..Len(all_events[e].options) :
                                  all_events[e].options[o].ticker
                                      = Get(ActiveMarkets(upstream[i])[m].ticker, "")
          /\ \A e \in 1..Len(all_events) : \A o \in 1..Len(all_events[e].options) :
                NonNumeric(MarketOf(all_events[e], all_events[e].options[o])) =>
                    all_events[e].options[o].probability = 0

\* a returned event with an option of a non-numeric price next to an option
\* of a numeric one, and another returned event
C3_Witness ==
    /\ pc = "done"
    /\ Len(result) >= 2
    /\ \E i \in 1..Len(result) : \E j, k \in 1..Len(result[i].options) :
          /\ MarketOf(result[i], result[i].options[j]).yes_bid_dollars.t = "text"
          /\ result[i].options[j].probability = 0
          /\ result[i].options[k].probability > 0

RECURSIVE SumVolume(_)
SumVolume(options) ==
    IF options = <<>> THEN 0
    ELSE options[1].volume_24h + SumVolume(Tail(options))

\* C4: in every event built or returned, under every sort key and also
\* during and after the enrichment, total_volume is the sum of the options'
\* volume_24h and num_markets is the number of options.
C4_TotalsMatchOptions ==
    /\ Built =>
          \A i \in 1..Len(all_events) :
              /\ all_events[i].total_volume = SumVolume(all_events[i].options)
              /\ all_events[i].num_markets = Len(all_events[i].options)
    /\ pc = "done" =>
          \A i \in 1..Len(result) :
              /\ result[i].total_volume = SumVolume(result[i].options)
              /\ result[i].num_markets = Len(result[i].options)

\* a returned, enriched event with two options of non-zero volume
C4_Witness ==
    /\ pc = "done"
    /\ sort_by = "price_change"
    /\ \E i \in 1..Len(result) :
          /\ Len(result[i].options) = 2
          /\ result[i].options[1].volume_24h > 0
          /\ result[i].options[2].volume_24h > 0
          /\ result[i].options[2].price_change_24h # 0
          /\ result[i].total_volume = 3

\* C5: every returned event has an option, every option comes from an
\* upstream market whose status is exactly "active", and an upstream event
\* without active market (also one without market list) is not returned.
C5_OnlyActiveMarkets ==
    pc = "done" =>
        /\ \A i \in 1..Len(result) :
              /\ Len(result[i].options) >= 1
              /\ \A j \in 1..Len(result[i].options) :
                    LET status == MarketOf(result[i], result[i].options[j]).status
                    IN  status.t = "str" /\ status.v = "active"
        /\ \A u \in 1..Len(upstream) :
              (\A m \in 1..Len(Get(upstream[u].markets, <<>>)) :
                    ~(/\ Get(upstream[u].markets, <<>>)[m].status.t = "str"
                      /\ Get(upstream[u].markets, <<>>)[m].status.v = "active")) =>
                  \A i \in 1..Len(result) :
                      result[i].event_ticker # Get(upstream[u].event_ticker, "")

\* an accepted event without market list is dropped and the returned event
\* has lost its closed market
C5_Witness ==
    /\ pc = "done"
    /\ Len(result) = 1
    /\ Len(result[1].options) = 3
    /\ Len(Get(UpstreamOf(result[1]).markets, <<>>)) = 4
    /\ \E u \in 1..Len(upstream) :
          /\ Matches(category, upstream[u])
          /\ upstream[u].markets.t = "absent"

\* C6: in every returned event the options are in non-increasing order of
\* probability, and options of equal probability are in the order of their
\* markets in the upstream market list.
C6_OptionsSortedStable ==
    pc = "done" =>
        \A i \in 1..Len(result) : \A a, b \in 1..Len(result[i].options) :
            a < b =>
                /\ result[i].options[a].probability >= result[i].options[b].probability
                /\ result[i].options[a].probability = result[i].options[b].probability =>
                      MarketPosition(result[i], result[i].options[a])
                          < MarketPosition(result[i], result[i].options[b])

\* two options of equal probability ahead of one that came first upstream
C6_Witness ==
    /\ pc = "done"
    /\ \E i \in 1..Len(result) :
          /\ Len(result[i].options) = 3
          /\ result[i].options[1].probability = result[i].options[2].probability
          /\ result[i].options[2].probability > result[i].options[3].probability
          /\ MarketPosition(result[i], result[i].options[3]) = 1

\* C7: with sort_by "volume" (with "num_markets") the returned list is in
\* non-increasing order of total_volume (of num_markets), events of equal
\* key being in their upstream order.
C7_EventsSortedStable ==
    pc = "done" =>
        \A a, b \in 1..Len(result) :
            a < b =>
                /\ sort_by = "volume" =>
                      /\ result[a].total_volume >= result[b].total_volume
                      /\ result[a].total_volume = result[b].total_volume =>
                            UpstreamPosition(result[a]) < UpstreamPosition(result[b])
                /\ sort_by = "num_markets" =>
                      /\ result[a].num_markets >= result[b].num_markets
                      /\ result[a].num_markets = result[b].num_markets =>
                            UpstreamPosition(result[a]) < UpstreamPosition(result[b])

\* sorted by volume: the third upstream event comes first, followed by two
\* events of equal volume
C7_Witness ==
    /\ pc = "done"
    /\ sort_by = "volume"
    /\ Len(result) = 3
    /\ UpstreamPosition(result[1]) = 3
    /\ result[1].total_volume > result[2].total_volume
    /\ result[2].total_volume = result[3].total_volume

\* C8: with sort_by "price_change" the returned list is in non-increasing
\* order of the absolute value of max_price_change, events of equal
\* absolute change being in their upstream order.
C8_EventsSortedByAbsoluteChange ==
    (pc = "done" /\ sort_by = "price_change") =>
        \A a, b \in 1..Len(result) :
            a < b =>
                /\ Abs(result[a].max_price_change) >= Abs(result[b].max_price_change)
                /\ Abs(result[a].max_price_change) = Abs(result[b].max_price_change) =>
                      UpstreamPosition(result[a]) < UpstreamPosition(result[b])

\* a change of -7 ranks above a change of +5 that came first upstream
C8_Witness ==
    /\ pc = "done"
    /\ sort_by = "price_change"
    /\ Len(result) = 2
    /\ result[1].max_price_change = -7
    /\ result[2].max_price_change = 5
    /\ UpstreamPosition(result[1]) > UpstreamPosition(result[2])

\* the key the events are ranked by
RankKey(event_data) ==
    CASE sort_by = "volume"       -> event_data.total_volume
      [] sort_by = "num_markets"  -> event_data.num_markets
      [] sort_by = "price_change" -> Abs(event_data.max_price_change)
      [] OTHER                    -> 0

\* C9: for a positive top_n the result is the first min(top_n, k) elements
\* of the sorted list of all k surviving events: the list holds each
\* surviving upstream event once, no returned event has a smaller key than
\* an omitted one, and all k are returned when k < top_n.
C9_PrefixOfSortedList ==
    (pc = "done" /\ args.top_n.t = "num" /\ args.top_n.v > 0) =>
        LET k == Len(all_events)
        IN  /\ k = Cardinality({u \in 1..Len(upstream) : Survives(category, upstream[u])})
            /\ \A u \in 1..Len(upstream) :
                  Survives(category, upstream[u]) =>
                      \E i \in 1..k : UpstreamPosition(all_events[i]) = u
            /\ Len(result) = IF args.top_n.v < k THEN args.top_n.v ELSE k
            /\ \A i \in 1..Len(result) : result[i] = all_events[i]
            /\ \A i \in 1..Len(result) : \A j \in (Len(result) + 1)..k :
                  RankKey(all_events[i]) >= RankKey(all_events[j])

\* top_n = 2 of three surviving events: the upstream third is returned
\* first and one event is omitted
C9_Witness ==
    /\ pc = "done"
    /\ args.top_n = Num(2)
    /\ Len(all_events) = 3
    /\ Len(result) = 2
    /\ UpstreamPosition(result[1]) = 3
    /\ RankKey(result[2]) > RankKey(all_events[3])

\* C10 as stated: when top_n is absent or not positive, the returned list is
\* never cut to a length that the caller did not pass.
C10_NoLimitTheCallerDidNotPass ==
    (pc = "done" /\ (args.top_n.t = "absent" \/ args.top_n.v <= 0)) =>
        ~(/\ Len(result) < Len(all_events)
          /\ (args.top_n.t = "absent" \/ args.top_n.v # Len(result)))

\* C10 as amended: without top_n the limit is the default 10, the result
\* being the first min(10, k) events of the sorted list; top_n = 0 returns
\* the empty list; a negative top_n returns the sorted list without its
\* last -top_n events (the empty list when k <= -top_n).
C10_DefaultAndSliceLimits ==
    pc = "done" =>
        LET k == Len(all_events)
        IN  /\ args.top_n.t = "absent" =>
                  result = SubSeq(all_events, 1, IF DEFAULT_TOP_N < k THEN DEFAULT_TOP_N ELSE k)
            /\ (args.top_n.t = "num" /\ args.top_n.v = 0) => result = <<>>
            /\ (args.top_n.t = "num" /\ args.top_n.v < 0) =>
                  result = SubSeq(all_events, 1, IF k + args.top_n.v > 0
                                                 THEN k + args.top_n.v ELSE 0)

\* a call without top_n that has more surviving events than the default
C10_Witness ==
    /\ pc = "done"
    /\ args.top_n.t = "absent"
    /\ Len(all_events) = DEFAULT_TOP_N + 1
    /\ Len(result) = DEFAULT_TOP_N

\* the upstream event i is in the list that was built
Accepted(i) ==
    \E e \in 1..Len(all_events) :
        all_events[e].event_ticker = Get(upstream[i].event_ticker, "")

\* the lower-cased title holds one of the keywords
HasKeyword(title) ==
    \E k \in 1..Len(CRYPTO_KEYWORDS) : IsIn(CRYPTO_KEYWORDS[k], Lower(title))

\* C11: an upstream event labelled "Financials", in any letter case, is
\* accepted by exactly one of the requests "crypto" and "economics": by
\* crypto iff its lower-cased title holds a crypto keyword, by economics iff
\* it holds none (stated of the snapshot, when the call starts); the list
\* a call has built for such a request holds the event iff the request
\* accepts it (the event having an active market).
C11_FinancialsSplitByKeyword ==
    \A i \in 1..Len(upstream) :
        Lower(Get(upstream[i].category, <<>>)) = s_financials =>
            /\ pc = "call" =>
                  LET keyword == HasKeyword(Get(upstream[i].title, <<>>))
                      crypto == Matches(txt_Crypto, upstream[i])
                      economics == Matches(txt_Economics, upstream[i])
                  IN  (crypto <=> keyword) /\ (economics <=> ~keyword) /\ crypto # economics
            /\ (pc = "done" /\ ActiveMarkets(upstream[i]) # <<>>) =>
                  /\ Lower(category) = s_crypto =>
                        (Accepted(i) <=> HasKeyword(Get(upstream[i].title, <<>>)))
                  /\ Lower(category) = s_economics =>
                        (Accepted(i) <=> ~HasKeyword(Get(upstream[i].title, <<>>)))

\* a crypto request has returned an event labelled FINANCIALS whose title
\* holds a keyword
C11_Witness ==
    /\ pc = "done"
    /\ Lower(category) = s_crypto
    /\ Len(result) = 1
    /\ Get(UpstreamOf(result[1]).category, <<>>) = txt_FINANCIALS
    /\ HasKeyword(result[1].title)
    /\ ~Matches(txt_Economics, UpstreamOf(result[1]))

\* the keys of CATEGORY_MAPPING
MappedNames ==
    {s_economics, s_crypto, s_politics, s_elections, s_financials, s_sports, s_entertainment,
     s_climate, s_weather, s_health, s_science, s_technology, s_world, s_companies, s_social,
     s_transportation}

\* C12: for a requested category other than crypto and economics, the list
\* that was built holds an upstream event (that has an active market) iff
\* its lower-cased label is a substring of a target label or a target label
\* is a substring of it; the targets are the mapping's entry for the
\* lower-cased requested name, or that name alone when the mapping has no
\* entry for it.
C12_AcceptedIffLabelOverlapsTarget ==
    LET name == Lower(category)
        targets == IF name \in MappedNames THEN CATEGORY_MAPPING_get(name) ELSE <<name>>
    IN  (name \notin {s_crypto, s_economics} /\ Built) =>
            \A i \in 1..Len(upstream) :
                ActiveMarkets(upstream[i]) # <<>> =>
                    LET label == Lower(Get(upstream[i].category, <<>>))
                    IN  Accepted(i) <=>
                            \E t \in 1..Len(targets) :
                                IsIn(label, targets[t]) \/ IsIn(targets[t], label)

\* a politics request has returned an event labelled "Elect", a substring
\* of the target "elections" that holds none of the targets
C12_Witness ==
    /\ pc = "done"
    /\ Lower(category) = s_politics
    /\ Len(result) = 1
    /\ result[1].category = txt_Elect
    /\ ~IsIn(s_politics, Lower(result[1].category))
    /\ ~IsIn(s_elections, Lower(result[1].category))

\* the positions in `lookups` of the lookups issued for an option
LookupsOf(event_data, option) ==
    {k \in 1..Len(lookups) :
        /\ lookups[k].event_ticker = event_data.event_ticker
        /\ lookups[k].ticker = option.ticker}

\* the lookup brought no candle data: the request failed, or the reading
\* of the candle raised
LookupFailed(response) ==
    ~response.ok \/ get_price_change_24h(response).raised

\* the enrichment loop has ended
Enriched == sort_by = "price_change" /\ pc \in {"return", "done"}

\* C13: with sort_by "price_change" no lookup makes the call raise; after
\* the loop an option whose lookup failed has price_change_24h = 0, an
\* option whose lookup succeeded has the change computed from the response
\* to its own lookup, and max_price_change of an event is one of its
\* options' changes, of the largest absolute value.
C13_FailedLookupsLeaveZero ==
    /\ pc = "raised" => lookups = <<>>
    /\ Enriched =>
          \A e \in 1..Len(all_events) :
              LET options == all_events[e].options
              IN  /\ \A o \in 1..Len(options) : \A k \in LookupsOf(all_events[e], options[o]) :
                        IF LookupFailed(lookups[k].response)
                        THEN options[o].price_change_24h = 0
                        ELSE options[o].price_change_24h
                                 = get_price_change_24h(lookups[k].response).value
                  /\ \E o \in 1..Len(options) :
                        all_events[e].max_price_change = options[o].price_change_24h
                  /\ \A o \in 1..Len(options) :
                        Abs(options[o].price_change_24h) <= Abs(all_events[e].max_price_change)

\* a returned event with an option A whose request failed and an option B
\* whose lookup gave a non-zero change, next to an event whose lookup failed
C13_Witness ==
    /\ pc = "done"
    /\ sort_by = "price_change"
    /\ Len(result) = 2
    /\ \E a, b \in 1..Len(result[1].options) :
          /\ \E k \in LookupsOf(result[1], result[1].options[a]) : ~lookups[k].response.ok
          /\ \E k \in LookupsOf(result[1], result[1].options[b]) : lookups[k].response.ok
          /\ result[1].options[a].price_change_24h = 0
          /\ result[1].options[b].price_change_24h # 0
          /\ result[1].max_price_change = result[1].options[b].price_change_24h
    /\ \E k \in LookupsOf(result[2], result[2].options[1]) : ~lookups[k].response.ok
    /\ result[2].max_price_change = 0

\* the field of a candle's price carries a number
Carries(field) == field.t = "num"

\* the change C14 states for a response: 0 without a candle or without a
\* close price to measure from, close - previous when the last candle
\* carries a previous price, else close - open when it carries an open price
StatedChange(response) ==
    LET candlesticks == IF response.ok THEN response.candlesticks ELSE <<>>
        candle == candlesticks[Len(candlesticks)]
        price == candle.price.v
    IN  IF candlesticks = <<>> THEN 0
        ELSE IF candle.price.t # "dict" \/ ~Carries(price.close) THEN 0
        ELSE IF Carries(price.previous) THEN price.close.v - price.previous.v
        ELSE IF Carries(price.open) THEN price.close.v - price.open.v
        ELSE 0

\* C14: the change an option receives from get_price_change_24h is, for
\* the last candle of the response, close - previous whenever the candle
\* carries a previous price, otherwise close - open whenever it carries an
\* open price, otherwise 0, and 0 when the response has no candle or no
\* usable price data.
C14_ChangeFromLastCandle ==
    Enriched =>
        \A e \in 1..Len(all_events) : \A o \in 1..Len(all_events[e].options) :
            \A k \in LookupsOf(all_events[e], all_events[e].options[o]) :
                all_events[e].options[o].price_change_24h = StatedChange(lookups[k].response)

\* C15: after the enrichment, max_price_change of an event is the signed
\* price_change_24h of the first option, in the order of the event's
\* options, among those of the largest absolute change; it is 0 when every
\* option's change is 0.
C15_MaxIsFirstLargestAbsoluteChange ==
    Enriched =>
        \A e \in 1..Len(all_events) :
            LET options == all_events[e].options
                change(o) == options[o].price_change_24h
            IN  IF \A o \in 1..Len(options) : change(o) = 0
                THEN all_events[e].max_price_change = 0
                ELSE \E j \in 1..Len(options) :
                        /\ all_events[e].max_price_change = change(j)
                        /\ \A k \in 1..Len(options) : Abs(change(k)) <= Abs(change(j))
                        /\ \A k \in 1..(j - 1) : Abs(change(k)) < Abs(change(j))

\* a returned event whose two options changed by -7 and by +7, in this
\* order
C15_Witness ==
    /\ pc = "done"
    /\ sort_by = "price_change"
    /\ Len(result) = 1
    /\ Len(result[1].options) = 2
    /\ result[1].options[1].price_change_24h = -7
    /\ result[1].options[2].price_change_24h = 7
    /\ result[1].max_price_change = -7

\* C16: when sort_by is "volume" or "num_markets" the call issues no candle
\* lookup, and every option built or returned has price_change_24h = 0 and
\* every event max_price_change = 0.
C16_NoLookupWithoutPriceChange ==
    sort_by \in {"volume", "num_markets"} =>
        /\ lookups = <<>>
        /\ \A e \in 1..Len(all_events) :
              /\ all_events[e].max_price_change = 0
              /\ \A o \in 1..Len(all_events[e].options) :
                    all_events[e].options[o].price_change_24h = 0
        /\ \A e \in 1..Len(result) :
              /\ result[e].max_price_change = 0
              /\ \A o \in 1..Len(result[e].options) : result[e].options[o].price_change_24h = 0

\* a call sorted by num_markets has returned two events whose options all
\* have both tickers, without any lookup
C16_Witness ==
    /\ pc = "done"
    /\ args.sort_by = Str("num_markets")
    /\ Len(result) = 2
    /\ \A e \in 1..Len(result) : \A o \in 1..Len(result[e].options) :
          HasTickers(result[e].options[o])
    /\ lookups = <<>>

\* an event without what the enrichment writes
WithoutChanges(event_data) ==
    [event_data EXCEPT
        !.max_price_change = 0,
        !.options = [o \in 1..Len(@) |-> [@[o] EXCEPT !.price_change_24h = 0]]]

\* C17: when a call has returned, under every sort key, and at every step
\* of the enrichment, the events of the list are, price_change_24h and
\* max_price_change set aside, the events that steps 2 and 3 build from the
\* snapshot, which do not depend on sort_by: the same surviving events with
\* the same option order, names, probabilities, volumes, tickers,
\* total_volume and num_markets.
C17_EnrichmentWritesOnlyChanges ==
    (pc = "done" \/ (sort_by = "price_change" /\ pc = "rank")) =>
        LET base == BuildAllEvents(category, upstream)
        IN  /\ Len(all_events) = Len(base)
            /\ {WithoutChanges(all_events[e]) : e \in 1..Len(all_events)}
                   = {base[b] : b \in 1..Len(base)}
            /\ sort_by = "price_change" /\ pc = "rank" =>
                  \A e \in 1..Len(all_events) : WithoutChanges(all_events[e]) = base[e]

\* the enrichment has written changes into both options of one event and
\* into one option of another event, and the call has returned
C17_Witness ==
    /\ pc = "done"
    /\ sort_by = "price_change"
    /\ Len(all_events) = 2
    /\ \A e \in 1..2 : all_events[e].max_price_change # 0
    /\ \E e \in 1..2 :
          /\ Len(all_events[e].options) = 2
          /\ \A o \in 1..2 : all_events[e].options[o].price_change_24h # 0
    /\ \E e \in 1..2 : \E o \in 1..Len(all_events[e].options) :
          ~HasTickers(all_events[e].options[o])

\* C18: with sort_by "price_change", once the loop has ended, exactly one
\* lookup was issued for each option, of each surviving event, that has a
\* non-empty series ticker and a non-empty market ticker, whether or not
\* the event is among the top_n returned; no lookup was issued for an
\* option that lacks either, and its change is 0.
C18_OneLookupPerOptionWithTickers ==
    Enriched =>
        /\ \A e \in 1..Len(all_events) : \A o \in 1..Len(all_events[e].options) :
              LET option == all_events[e].options[o]
              IN  IF option.series_ticker # "" /\ option.ticker # ""
                  THEN Cardinality(LookupsOf(all_events[e], option)) = 1
                  ELSE /\ LookupsOf(all_events[e], option) = {}
                       /\ option.price_change_24h = 0
        /\ \A k \in 1..Len(lookups) :
              \E e \in 1..Len(all_events) : \E o \in 1..Len(all_events[e].options) :
                  /\ k \in LookupsOf(all_events[e], all_events[e].options[o])
                  /\ lookups[k].series_ticker = all_events[e].options[o].series_ticker
                  /\ lookups[k].series_ticker # ""
                  /\ lookups[k].ticker # ""

\* of two surviving events one was returned; the other one had a lookup
\* for each of its two options; an option of the returned one has no
\* market ticker and had none
C18_Witness ==
    /\ pc = "done"
    /\ sort_by = "price_change"
    /\ Len(all_events) = 2
    /\ Len(result) = 1
    /\ \E e \in 1..2 :
          /\ all_events[e] # result[1]
          /\ Len(all_events[e].options) = 2
          /\ \A o \in 1..2 : Cardinality(LookupsOf(all_events[e], all_events[e].options[o])) = 1
    /\ \E o \in 1..Len(result[1].options) :
          /\ result[1].options[o].ticker = ""
          /\ result[1].options[o].series_ticker # ""
          /\ LookupsOf(result[1], result[1].options[o]) = {}
    /\ Len(lookups) = 3

\* C19: once the request of the event listing has failed, the call has
\* left through the exception of the request, has built nothing and never
\* returns a list: a call that has returned had a listing that succeeded.
C19_ListingFailurePropagates ==
    /\ events_request = "failed" =>
          /\ pc = "raised"
          /\ exception = "RequestException"
          /\ events = <<>>
          /\ all_events = <<>>
          /\ result = <<>>
    /\ pc \in {"build", "rank", "return", "done"} => events_request = "ok"

\* the listing failed while the API held events that the call would accept
C19_Witness ==
    /\ events_request = "failed"
    /\ pc = "raised"
    /\ Len(BuildAllEvents(category, upstream)) >= 2
    /\ ~BuildRaises(category, upstream)

\* the volume_24h of a market is missing, null or not a number
MalformedVolume(market) == market.volume_24h.t \in {"absent", "null", "text"}

\* C20: a market whose volume_24h is missing, null or unparseable yields an
\* option of volume 0 and a market without YES label an option named
\* "Unknown"; the call does not raise for it, and every accepted event is
\* built with one option for each of its active markets.
C20_MalformedVolumeAndLabelDefaults ==
    /\ pc = "raised" => exception # "TypeError"
    /\ Built =>
          /\ \A i \in 1..Len(upstream) :
                (Matches(category, upstream[i]) /\ ActiveMarkets(upstream[i]) # <<>>) =>
                    \E e \in 1..Len(all_events) :
                        /\ all_events[e].event_ticker = Get(upstream[i].event_ticker, "")
                        /\ Len(all_events[e].options) = Len(ActiveMarkets(upstream[i]))
          /\ \A e \in 1..Len(all_events) : \A o \in 1..Len(all_events[e].options) :
                LET market == MarketOf(all_events[e], all_events[e].options[o])
                IN  /\ MalformedVolume(market) => all_events[e].options[o].volume_24h = 0
                    /\ market.yes_sub_title.t = "absent" =>
                          all_events[e].options[o].name = "Unknown"

ChangeOf(event_data, option) ==
    LET ks == LookupsOf(event_data, option)
        change == get_price_change_24h(lookups[CHOOSE k \in ks : TRUE].response)
    IN  IF ks = {} \/ change.raised THEN 0 ELSE change.value

\* the first of the changes of the largest absolute value, 0 when all are 0
FirstLargest(changes) ==
    IF \A o \in 1..Len(changes) : changes[o] = 0 THEN 0
    ELSE changes[CHOOSE j \in 1..Len(changes) :
                    /\ \A k \in 1..Len(changes) : Abs(changes[k]) <= Abs(changes[j])
                    /\ \A k \in 1..(j - 1) : Abs(changes[k]) < Abs(changes[j])]

\* an event of steps 2 and 3 with the changes of its options' candle results
WithChanges(event_data) ==
    LET changes == [o \in 1..Len(event_data.options) |->
                       ChangeOf(event_data, event_data.options[o])]
    IN  [event_data EXCEPT
            !.options = [o \in 1..Len(@) |-> [@[o] EXCEPT !.price_change_24h = changes[o]]],
            !.max_price_change = FirstLargest(changes)]

\* C22: with sort_by "price_change" the returned list is determined by the
\* snapshot and by the candle result of each option, whatever the order in
\* which the results arrived: it is the list of the events built from the
\* snapshot, each option carrying the change of its own candle result and
\* each event the first largest change of its options, sorted by absolute
\* max_price_change (stably, from the upstream order) and cut to top_n.
C22_ResultDeterminedByCandleResults ==
    (pc = "done" /\ sort_by = "price_change") =>
        LET base == BuildAllEvents(category, upstream)
            enriched == [e \in 1..Len(base) |-> WithChanges(base[e])]
        IN  result = SliceTo(SortEventsByPriceChange(enriched), top_n)

\* two events were returned in the reverse of their upstream order, the
\* one whose lookups came last being first, and their changes differ
C22_Witness ==
    /\ pc = "done"
    /\ sort_by = "price_change"
    /\ Len(result) = 2
    /\ UpstreamPosition(result[1]) > UpstreamPosition(result[2])
    /\ lookups[Len(lookups)].event_ticker = result[1].event_ticker
    /\ lookups[1].event_ticker = result[2].event_ticker
    /\ result[2].max_price_change # 0
    /\ Abs(result[1].max_price_change) > Abs(result[2].max_price_change)
    /\ Len(result[1].options) = 2
    /\ result[1].options[1].price_change_24h # result[1].options[2].price_change_24h

\* the upstream positions of the events that survive steps 2 and 3
SurvivingPositions ==
    {i \in 1..Len(upstream) : Survives(category, upstream[i])}

\* C27: for a sort_by other than "volume", "num_markets" and "price_change"
\* the call issues no lookup, raises only where a call with a known key
\* raises (failed listing, market that cannot be built), and returns the
\* first top_n surviving events in upstream order.
C27_UnknownSortKeepsUpstreamOrder ==
    sort_by \notin {"volume", "num_markets", "price_change"} =>
        /\ lookups = <<>>
        /\ pc = "raised" => (events_request = "failed" \/ BuildRaises(category, upstream))
        /\ (pc = "done" /\ top_n >= 0) =>
              /\ Len(result) = IF Cardinality(SurvivingPositions) < top_n
                               THEN Cardinality(SurvivingPositions) ELSE top_n
              /\ \A e \in 1..Len(result) :
                    /\ UpstreamPosition(result[e]) \in SurvivingPositions
                    /\ Cardinality({i \in SurvivingPositions : i <= UpstreamPosition(result[e])}) = e

\* a call with sort_by "title" has returned the first two of three
\* surviving events, the one of the smaller volume first
C27_Witness ==
    /\ pc = "done"
    /\ args.sort_by = Str("title")
    /\ Len(all_events) = 3
    /\ Len(result) = 2
    /\ result[1].total_volume < result[2].total_volume
    /\ result[1].num_markets < result[2].num_markets

\* the upstream event i is in the returned list
Returned(i) ==
    \E e \in 1..Len(result) : result[e].event_ticker = Get(upstream[i].event_ticker, "")

\* C28: an upstream event whose category label is missing or empty passes
\* the base match of every requested category; when it has an active
\* market (and top_n does not cut it) it is returned for every request
\* other than crypto and economics, for economics iff its title holds no
\* crypto keyword, and for crypto iff its title holds one.
C28_EmptyLabelMatchesEveryCategory ==
    \A i \in 1..Len(upstream) :
        Get(upstream[i].category, <<>>) = <<>> =>
            /\ pc = "call" => CategoryMatches(CATEGORY_MAPPING_get(Lower(category)), <<>>)
            /\ (pc = "done" /\ ActiveMarkets(upstream[i]) # <<>> /\ top_n >= Len(all_events)) =>
                  LET keyword == HasKeyword(Get(upstream[i].title, <<>>))
                  IN  CASE Lower(category) = s_crypto -> Returned(i) <=> keyword
                        [] Lower(category) = s_economics -> Returned(i) <=> ~keyword
                        [] OTHER -> Returned(i)

\* a request for "World" has returned an event that has no category label
C28_Witness ==
    /\ pc = "done"
    /\ Lower(category) = s_world
    /\ upstream[1].category.t = "absent"
    /\ Len(result) = 1
    /\ Returned(1)

\* ========================================================================
\* telegram_bot.py: subscriptions, their file and the hourly job
\* ========================================================================

\* ------------------------------------------------------------------------
\* str(chat_id), int(text) and str.split
\* ------------------------------------------------------------------------
Digits == <<"0", "1", "2", "3", "4", "5", "6", "7", "8", "9">>
IsDigit(ch) == \E i \in 1..Len(Digits) : Digits[i] = ch
DigitValue(ch) == (CHOOSE i \in 1..Len(Digits) : Digits[i] = ch) - 1

RECURSIVE NatToText(_)
NatToText(n) ==
    IF n < Len(Digits)
    THEN <<Digits[n + 1]>>
    ELSE NatToText(n \div Len(Digits)) \o <<Digits[(n % Len(Digits)) + 1]>>

\* str(n) of an int
IntToText(n) == IF n < 0 THEN <<"-">> \o NatToText(-n) ELSE NatToText(n)

RECURSIVE DigitsValue(_)
DigitsValue(s) ==
    IF s = <<>>
    THEN 0
    ELSE Len(Digits) * DigitsValue(SubSeq(s, 1, Len(s) - 1)) + DigitValue(s[Len(s)])

\* int(text) of a text without blanks or underscores: an optional sign and
\* at least one digit; ok is FALSE where int raises ValueError
ParseInt(text) ==
    LET signed == text # <<>> /\ text[1] \in {"-", "+"}
        digits == IF signed THEN Tail(text) ELSE text
    IN  IF digits # <<>> /\ \A i \in 1..Len(digits) : IsDigit(digits[i])
        THEN [ok |-> TRUE,
              value |-> IF signed /\ text[1] = "-"
                        THEN 0 - DigitsValue(digits)
                        ELSE DigitsValue(digits)]
        ELSE [ok |-> FALSE, value |-> 0]

\* text.split(sep) for a separator of one character
RECURSIVE Split(_, _)
Split(text, sep) ==
    IF \E i \in 1..Len(text) : text[i] = sep
    THEN LET i == CHOOSE i \in 1..Len(text) :
                      text[i] = sep /\ \A j \in 1..(i - 1) : text[j] # sep
         IN  <<SubSeq(text, 1, i - 1)>> \o Split(SubSeq(text, i + 1, Len(text)), sep)
    ELSE <<text>>

\* ------------------------------------------------------------------------
\* A dict str -> {"hour": ...} is the sequence of its items in insertion
\* order; an item is [key, hour] with hour a field [t, v] as above
\* ------------------------------------------------------------------------
HasKey(d, k) == \E i \in 1..Len(d) : d[i].key = k
IndexOf(d, k) == CHOOSE i \in 1..Len(d) : d[i].key = k

\* d[k] = {"hour": hour} and d[k]["hour"] = hour: an item that exists
\* keeps its place, a new one goes last
SetItem(d, k, hour) ==
    IF HasKey(d, k)
    THEN [d EXCEPT ![IndexOf(d, k)].hour = hour]
    ELSE Append(d, [key |-> k, hour |-> hour])

\* del d[k]
DelItem(d, k) == SelectSeq(d, LAMBDA item : item.key # k)

\* ------------------------------------------------------------------------
\* Subscription storage
\* ------------------------------------------------------------------------
DEFAULT_UPDATE_HOUR == 8

\* the dict that a comprehension builds from a sequence of (key, hour) pairs
RECURSIVE DictOf(_)
DictOf(pairs) ==
    IF pairs = <<>>
    THEN <<>>
    ELSE LET last == pairs[Len(pairs)]
         IN  SetItem(DictOf(SubSeq(pairs, 1, Len(pairs) - 1)), last.key, last.hour)

load_subscriptions(file) ==
    IF file.t = "list"
    THEN DictOf([i \in 1..Len(file.ids) |->
                    [key |-> IntToText(file.ids[i]), hour |-> Num(DEFAULT_UPDATE_HOUR)]])
    ELSE IF file.t = "dict"
    THEN DictOf(file.members)
    ELSE <<>>

\* json.dump of the dict: one member per item, in the order of the dict
save_subscriptions(chat_data) ==
    DictFile([i \in 1..Len(chat_data) |->
                 [key |-> chat_data[i].key, hour |-> chat_data[i].hour]])

\* [int(chat_id) for chat_id, data in subscribed_chats.items()
\*  if data.get("hour") == hour]
get_chats_for_hour(hour) ==
    LET scheduled == SelectSeq(subscribed_chats, LAMBDA item : item.hour = Num(hour))
    IN  [i \in 1..Len(scheduled) |-> ParseInt(scheduled[i].key).value]

\* the hour that /subscribe and /status show for an item:
\* .get("hour", DEFAULT_UPDATE_HOUR)
ReportedHour(item) ==
    IF item.hour.t = "absent" THEN DEFAULT_UPDATE_HOUR ELSE item.hour.v

\* ------------------------------------------------------------------------
\* Inputs of the bot
\* ------------------------------------------------------------------------
\* the hourly runs of send_hourly_update that the model follows
MaxRuns == 3

\* the SGT hour of the first run
StartHours == {8, 23}

txt_settime_ == <<"s", "e", "t", "t", "i", "m", "e", "_">>

\* callback data that matches the pattern "^settime_" of the handler: two
\* buttons of the keyboard, then data that no button carries
CallbackData ==
    {txt_settime_ \o suffix :
        suffix \in {<<"0">>, <<"2", "3">>, <<"2", "4">>, <<"-", "1">>, <<"x">>, <<>>,
                    <<"0", "_", "5">>}}

Item(chat_id, hour) == [key |-> IntToText(chat_id), hour |-> hour]

\* subscribed_chats.json when the bot starts
InitialFiles ==
    {NoFile,
     CorruptFile,
     ListFile(<<42>>),
     ListFile(<<42, -7>>),
     DictFile(<<Item(42, Num(8))>>),
     DictFile(<<Item(42, Num(23)), Item(-7, Num(23))>>),
     DictFile(<<Item(42, NoNum), Item(-7, Num(23))>>),
     DictFile(<<Item(42, NoNum), Item(-7, Num(8))>>),
     DictFile(<<Item(42, Num(8)), Item(42, Num(23))>>)}

\* the client while the model follows the bot
ClientIdle ==
    /\ upstream = <<>>
    /\ candle_api = Lookups
    /\ events_request = "pending"
    /\ previous_call = [state |-> "single", result |-> <<>>, lookups |-> <<>>]
    /\ args = Call(txt_Politics, Num(5), Str("volume"))
    /\ pc = "call"
    /\ events = <<>>
    /\ all_events = <<>>
    /\ event_i = 1
    /\ option_i = 1
    /\ max_change = 0
    /\ lookups = <<>>
    /\ result = <<>>
    /\ exception = ""

client_vars ==
    <<upstream, candle_api, events_request, previous_call, args, pc, events, all_events,
      event_i, option_i, max_change, lookups, result, exception>>

\* the module is imported: subscribed_chats = load_subscriptions()
BotInit ==
    /\ ClientIdle
    /\ \E file \in InitialFiles, hour \in StartHours :
          /\ subscriptions_file = file
          /\ subscribed_chats = load_subscriptions(file)
          /\ clock = hour
    /\ keyboards = {}
    /\ runs = 0
    /\ job = IdleJob
    /\ delivered = [chat_id \in ChatIds |-> 0]

\* ------------------------------------------------------------------------
\* Command handlers.  A handler mutates the dict and saves it without an
\* await in between, so it is one step; it runs while send_hourly_update is
\* not running or is waiting for a send_message.
\* ------------------------------------------------------------------------
AtAwait == job.pc \in {"idle", "send"}

\* mutant: /subscribe on a subscribed chat sets the default hour again
subscribe_command_ResetsHour(chat_id) ==
    /\ AtAwait
    /\ subscribed_chats' =
          SetItem(subscribed_chats, IntToText(chat_id), Num(DEFAULT_UPDATE_HOUR))
    /\ subscriptions_file' = save_subscriptions(subscribed_chats')
    /\ UNCHANGED <<client_vars, keyboards, clock, runs, job, delivered>>

subscribe_command(chat_id) ==
    LET chat_id_str == IntToText(chat_id)
    IN  /\ AtAwait
        /\ IF HasKey(subscribed_chats, chat_id_str)
           THEN UNCHANGED <<subscribed_chats, subscriptions_file>>
           ELSE /\ subscribed_chats' =
                      SetItem(subscribed_chats, chat_id_str, Num(DEFAULT_UPDATE_HOUR))
                /\ subscriptions_file' = save_subscriptions(subscribed_chats')
        /\ UNCHANGED <<client_vars, keyboards, clock, runs, job, delivered>>

\* mutant: /unsubscribe does not save the dict
unsubscribe_command_NoSave(chat_id) ==
    /\ AtAwait
    /\ subscribed_chats' = DelItem(subscribed_chats, IntToText(chat_id))
    /\ delivered' = [delivered EXCEPT ![chat_id] = 0]
    /\ UNCHANGED <<client_vars, subscriptions_file, keyboards, clock, runs, job>>

unsubscribe_command(chat_id) ==
    LET chat_id_str == IntToText(chat_id)
    IN  /\ AtAwait
        /\ IF ~HasKey(subscribed_chats, chat_id_str)
           THEN UNCHANGED <<subscribed_chats, subscriptions_file, delivered>>
           ELSE /\ subscribed_chats' = DelItem(subscribed_chats, chat_id_str)
                /\ subscriptions_file' = save_subscriptions(subscribed_chats')
                /\ delivered' = [delivered EXCEPT ![chat_id] = 0]
        /\ UNCHANGED <<client_vars, keyboards, clock, runs, job>>

\* /settime shows its keyboard to a subscribed chat; a chat may hold several
\* keyboards, so one stays with the chat whatever it presses
settime_command(chat_id) ==
    /\ AtAwait
    /\ keyboards' = IF HasKey(subscribed_chats, IntToText(chat_id))
                    THEN keyboards \cup {chat_id}
                    ELSE keyboards
    /\ UNCHANGED <<client_vars, subscriptions_file, subscribed_chats, clock, runs, job,
                   delivered>>

Invalid == [ok |-> FALSE, value |-> 0]

\* mutant: the hour is not checked against 0..23
SelectedHour_AnyInteger(data) ==
    LET parts == Split(data, "_")
    IN  IF Len(parts) < 2 THEN Invalid ELSE ParseInt(parts[2])

\* hour = int(query.data.split("_")[1]) with its range check; ok is FALSE
\* where the handler catches IndexError or ValueError
SelectedHour(data) ==
    LET parts == Split(data, "_")
    IN  IF Len(parts) < 2
        THEN Invalid
        ELSE LET hour == ParseInt(parts[2])
             IN  IF hour.ok /\ ~(hour.value < 0 \/ hour.value > 23) THEN hour ELSE Invalid

settime_callback(chat_id, data) ==
    LET chat_id_str == IntToText(chat_id)
        hour == SelectedHour(data)
    IN  /\ AtAwait
        /\ chat_id \in keyboards
        /\ IF hour.ok /\ HasKey(subscribed_chats, chat_id_str)
           THEN /\ subscribed_chats' = SetItem(subscribed_chats, chat_id_str, Num(hour.value))
                /\ subscriptions_file' = save_subscriptions(subscribed_chats')
           ELSE UNCHANGED <<subscribed_chats, subscriptions_file>>
        /\ UNCHANGED <<client_vars, keyboards, clock, runs, job, delivered>>

\* the bot is stopped between two runs and started again
Restart ==
    /\ job.pc = "idle"
    /\ subscribed_chats' = load_subscriptions(subscriptions_file)
    /\ UNCHANGED <<client_vars, subscriptions_file, keyboards, clock, runs, job, delivered>>

\* ------------------------------------------------------------------------
\* send_hourly_update: the job queue runs it once an hour
\* ------------------------------------------------------------------------
\* current_hour and chats_to_update are computed
send_hourly_update ==
    /\ job.pc = "idle"
    /\ runs < MaxRuns
    /\ job' = [pc |-> "started", current_hour |-> clock,
               chats_to_update |-> get_chats_for_hour(clock), chat_i |-> 1,
               failed_chats |-> <<>>]
    /\ clock' = (clock + 1) % 24
    /\ runs' = runs + 1
    /\ UNCHANGED <<client_vars, subscriptions_file, subscribed_chats, keyboards, delivered>>

\* if not chats_to_update: return
NoChatsScheduled ==
    /\ job.pc = "started"
    /\ job.chats_to_update = <<>>
    /\ job' = IdleJob
    /\ UNCHANGED <<client_vars, subscriptions_file, subscribed_chats, keyboards, clock, runs,
                   delivered>>

\* the two calls of get_top_events_by_category return and the message is
\* formatted
FetchMarkets ==
    /\ job.pc = "started"
    /\ job.chats_to_update # <<>>
    /\ job' = [job EXCEPT !.pc = "send"]
    /\ UNCHANGED <<client_vars, subscriptions_file, subscribed_chats, keyboards, clock, runs,
                   delivered>>

\* one of them raises: the outer except prints the error
FetchMarketsFails ==
    /\ job.pc = "started"
    /\ job.chats_to_update # <<>>
    /\ job' = IdleJob
    /\ UNCHANGED <<client_vars, subscriptions_file, subscribed_chats, keyboards, clock, runs,
                   delivered>>

\* await context.bot.send_message(...) returns; delivered counts the update
\* for a chat that is subscribed when it arrives
SendMessage ==
    /\ job.pc = "send"
    /\ job.chat_i <= Len(job.chats_to_update)
    /\ LET chat_id == job.chats_to_update[job.chat_i]
       IN  delivered' = IF HasKey(subscribed_chats, IntToText(chat_id))
                        THEN [delivered EXCEPT ![chat_id] = @ + 1]
                        ELSE delivered
    /\ job' = [job EXCEPT !.chat_i = @ + 1]
    /\ UNCHANGED <<client_vars, subscriptions_file, subscribed_chats, keyboards, clock, runs>>

\* mutant: a failed send ends the run
SendMessageFails_EndsRun ==
    /\ job.pc = "send"
    /\ job.chat_i <= Len(job.chats_to_update)
    /\ job' = IdleJob
    /\ UNCHANGED <<client_vars, subscriptions_file, subscribed_chats, keyboards, clock, runs,
                   delivered>>

\* await context.bot.send_message(...) raises: the chat is logged as failed
SendMessageFails ==
    /\ job.pc = "send"
    /\ job.chat_i <= Len(job.chats_to_update)
    /\ job' = [job EXCEPT !.chat_i = @ + 1,
                          !.failed_chats = Append(@, job.chats_to_update[job.chat_i])]
    /\ UNCHANGED <<client_vars, subscriptions_file, subscribed_chats, keyboards, clock, runs,
                   delivered>>

\* the loop is over: the failed chats are printed and the job returns
FinishUpdate ==
    /\ job.pc = "send"
    /\ job.chat_i > Len(job.chats_to_update)
    /\ job' = IdleJob
    /\ UNCHANGED <<client_vars, subscriptions_file, subscribed_chats, keyboards, clock, runs,
                   delivered>>

BotNext ==
    \/ \E chat_id \in ChatIds : subscribe_command(chat_id)
    \/ \E chat_id \in ChatIds : unsubscribe_command(chat_id)
    \/ \E chat_id \in ChatIds : settime_command(chat_id)
    \/ \E chat_id \in ChatIds, data \in CallbackData : settime_callback(chat_id, data)
    \/ Restart
    \/ send_hourly_update
    \/ NoChatsScheduled
    \/ FetchMarkets
    \/ FetchMarketsFails
    \/ SendMessage
    \/ SendMessageFails
    \/ FinishUpdate

BotSpec == BotInit /\ [][BotNext]_vars

\* ------------------------------------------------------------------------
\* Properties of the bot
\* ------------------------------------------------------------------------
\* the chats whose stored hour is the given hour
StoredAt(hour) ==
    {chat_id \in ChatIds :
        \E i \in 1..Len(subscribed_chats) :
            /\ subscribed_chats[i].key = IntToText(chat_id)
            /\ subscribed_chats[i].hour = Num(hour)}

Chats(list) == {list[i] : i \in 1..Len(list)}

\* C23: a run of send_hourly_update at SGT hour h whose market fetch
\* succeeds attempts one send to every chat whose stored hour is h and to no
\* other chat, and a send that fails does not end the run: the run goes
\* through its list one chat at a time and returns only after the last one.
C23_UpdateAttemptsEveryChatOfTheHour ==
    /\ [](job.pc = "started" =>
            /\ Chats(job.chats_to_update) = StoredAt(job.current_hour)
            /\ Cardinality(Chats(job.chats_to_update)) = Len(job.chats_to_update))
    /\ [][/\ (job.pc = "started" /\ job'.pc = "send") =>
                (job'.chats_to_update = job.chats_to_update /\ job'.chat_i = 1)
          /\ (job.pc = "send" /\ job' # job) =>
                \/ /\ job'.pc = "send"
                   /\ job'.chats_to_update = job.chats_to_update
                   /\ job.chat_i <= Len(job.chats_to_update)
                   /\ job'.chat_i = job.chat_i + 1
                \/ /\ job'.pc = "idle"
                   /\ job.chat_i = Len(job.chats_to_update) + 1]_vars

\* both chats of the hour were attempted although the first send failed
C23_Witness ==
    /\ job.pc = "send"
    /\ Len(job.chats_to_update) = 2
    /\ job.chat_i = 3
    /\ job.failed_chats = <<job.chats_to_update[1]>>

\* the dict read as a mapping: its keys, and the hour stored under a key
Keys(d) == {d[i].key : i \in 1..Len(d)}
HourOf(d, k) == d[IndexOf(d, k)].hour
SameElsewhere(d, e, k) ==
    \A other \in (Keys(d) \cup Keys(e)) \ {k} :
        other \in Keys(d) /\ other \in Keys(e) /\ HourOf(d, other) = HourOf(e, other)

\* C24: /subscribe adds a chat that is not subscribed with hour 8 and leaves
\* the dict of an already subscribed chat as it is (a chosen hour is not
\* reset); /unsubscribe removes that chat; neither touches the entry of any
\* other chat.
C24_SubscribeAddsAndUnsubscribeRemoves ==
    [][\A chat_id \in ChatIds :
          LET k == IntToText(chat_id)
          IN  /\ subscribe_command(chat_id) =>
                    IF k \in Keys(subscribed_chats)
                    THEN subscribed_chats' = subscribed_chats
                    ELSE /\ k \in Keys(subscribed_chats')
                         /\ HourOf(subscribed_chats', k) = Num(8)
                         /\ SameElsewhere(subscribed_chats, subscribed_chats', k)
              /\ unsubscribe_command(chat_id) =>
                    /\ k \notin Keys(subscribed_chats')
                    /\ SameElsewhere(subscribed_chats, subscribed_chats', k)]_vars

\* chat 42 was removed and added again next to chat -7: it is back at hour
\* 8 behind -7, which kept the hour 23 it had
C24_Witness ==
    /\ subscribed_chats = <<Item(-7, Num(23)), Item(42, Num(8))>>
    /\ subscriptions_file = save_subscriptions(subscribed_chats)

\* the callback data of the 24 buttons of the /settime keyboard
Buttons == [h \in 0..23 |-> txt_settime_ \o IntToText(h)]

\* the hours of 0..23 that the data selects: the text after "settime_", up
\* to a further "_" if there is one, is the decimal numeral of the hour
SelectedHours(data) ==
    {h \in 0..23 :
        \/ data = Buttons[h]
        \/ /\ Len(data) > Len(Buttons[h])
           /\ data[Len(Buttons[h]) + 1] = "_"
           /\ SubSeq(data, 1, Len(Buttons[h])) = Buttons[h]}

\* C25: handling a settime selection writes the selected hour when the chat
\* is subscribed at that moment and the selection is an integer in 0..23,
\* and leaves the dict unchanged otherwise (malformed data, hour out of
\* range, chat no longer subscribed); hence every hour in the dict is in
\* 0..23.
C25_SettimeWritesOnlyValidHours ==
    /\ [](\A i \in 1..Len(subscribed_chats) :
            subscribed_chats[i].hour.t = "num" => subscribed_chats[i].hour.v \in 0..23)
    /\ [][\A chat_id \in ChatIds, data \in CallbackData :
             LET k == IntToText(chat_id)
             IN  settime_callback(chat_id, data) =>
                    IF k \in Keys(subscribed_chats) /\ SelectedHours(data) # {}
                    THEN /\ k \in Keys(subscribed_chats')
                         /\ \E h \in SelectedHours(data) :
                               HourOf(subscribed_chats', k) = Num(h)
                         /\ SameElsewhere(subscribed_chats, subscribed_chats', k)
                    ELSE subscribed_chats' = subscribed_chats]_vars

\* chat 42 chose hour 0, and chat -7 holds a keyboard although it is no
\* longer subscribed
C25_Witness ==
    /\ HasKey(subscribed_chats, IntToText(42))
    /\ HourOf(subscribed_chats, IntToText(42)) = Num(0)
    /\ -7 \in keyboards
    /\ ~HasKey(subscribed_chats, IntToText(-7))

\* C26: the subscription file always holds the dict that is in memory, so
\* that load_subscriptions after a restart returns the dict that the last
\* /subscribe, /unsubscribe or settime selection left: loading what
\* save_subscriptions wrote gives back the same keys with the same hours.
C26_FileHoldsTheDictInMemory ==
    /\ load_subscriptions(subscriptions_file) = subscribed_chats
    /\ load_subscriptions(save_subscriptions(subscribed_chats)) = subscribed_chats

\* chat 42 unsubscribed and chat -7 chose hour 0: the file was written by
\* the bot and holds the one entry that is left
C26_Witness ==
    /\ subscribed_chats = <<Item(-7, Num(0))>>
    /\ subscriptions_file = DictFile(<<Item(-7, Num(0))>>)

\* C29: a run of send_hourly_update at SGT hour h has in its list exactly
\* the subscribed chats for which /status and /subscribe report the hour h,
\* an entry without "hour" being reported as hour 8.
C29_UpdateAtTheReportedHour ==
    job.pc = "started" =>
        \A i \in 1..Len(subscribed_chats) :
            (ReportedHour(subscribed_chats[i]) = job.current_hour) <=>
                (ParseInt(subscribed_chats[i].key).value \in Chats(job.chats_to_update))

\* C30: as long as a chat stays subscribed it is sent at most one scheduled
\* update in 24 consecutive runs of send_hourly_update, whatever hours it
\* selects in between.
C30_AtMostOneUpdateInADay ==
    runs <= 24 => \A chat_id \in ChatIds : delivered[chat_id] <= 1

====
